---- MODULE Spec2Model ----
(***************************************************************************)
(* Session and round state machine of the hangman party-game server.       *)
(*                                                                         *)
(* Three variants of the server are modelled side by side:                 *)
(*   B  the "stable baseline" server   (src/server.js, lines 577-998)      *)
(*   W  the wrong-guess-limit server   (src/unnamed/part_001)              *)
(*   A  the auto-advance server        (src/unnamed/part_002)              *)
(* The variable `variant` says which server a behaviour belongs to.        *)
(*                                                                         *)
(* Connection 1 is the TV display (the host): it sends the atv: events.    *)
(* The other connections are phones: they send the player, manager and     *)
(* setter events.  Every connection can disconnect, once.                  *)
(*                                                                         *)
(* Every socket event handler is one action; it runs to completion (the    *)
(* server is single threaded).  A handler is written as an operator On...  *)
(* that gives its outcome in the current state: the new registry, the new  *)
(* socket data and the events it emits; the action takes that outcome.     *)
(* Strings that the code inspects character by character (phrases,         *)
(* guesses) are sequences of one-character strings.                        *)
(*                                                                         *)
(* Specifications: SpecB, SpecW and Spec (either server) start from an     *)
(* empty registry; SpecT starts at a full table, with one player more than *)
(* joins allow, so that guessers take turns; SpecTTL is the wrong-limit    *)
(* server with a clock that passes the expiry of a session; SpecMask draws *)
(* the phrase of an active round from a set of canonical phrases.  SpecL,  *)
(* SpecK, SpecQ, SpecS, SpecI and SpecF are described where they are       *)
(* defined; SpecA is the auto-advance server with its pending timers.      *)
(***************************************************************************)
EXTENDS Integers, Sequences, FiniteSets, TLC

VARIABLES
    variant,    \* "B", "W" or "A": which server this behaviour runs
    sessions,   \* the Map code -> session (a function on the live codes)
    sockCode,   \* socket.data.code of every connection ("" is null)
    open,       \* open[c]: connection c has not disconnected yet
    now,        \* Date.now(), in milliseconds
    timers      \* the setTimeout callbacks that have not run yet (A only)

vars == <<variant, sessions, sockCode, open, now, timers>>

----------------------------------------------------------------------------
(* Bounds of the model *)

MaxConn == 3        \* connections (socket ids 1..MaxConn)
MaxPlayers == 2     \* entries the model lets a players list grow to
MaxScore == 2       \* a win that would lift a score above this is not taken
MaxPointer == 3     \* nextRound is not taken at a setterPointer this large
MaxWrong == 2       \* a wrong solve is not taken at a wrongCount this large

(* Program constants *)

CODE_TTL_MS == 7200000
PlayerCap == 10

Conns == 1 .. MaxConn
Hosts == {1}                    \* the connection of the TV display app
Phones == Conns \ Hosts         \* the connections of the phone clients
NoConn == 0                     \* null socket id
NoCode == ""                    \* socket.data.code = null
Codes == {"K7QP"}               \* the codes makeCode can return
CodeInputs == Codes \cup {"ZZZZ"}
NameInputsB == {"Al"}
NameInputsW == {"Al"}
HintInputs == {"h"}
LetterInputs == {"A", "b", "!", "AB"}

NoGame == [null |-> TRUE]       \* session.game = null
NoRound == [null |-> TRUE]      \* game.round = null
Null == <<"null">>              \* normalizePhrase returning null

----------------------------------------------------------------------------
(* Characters and strings *)

UpperSeq == <<"A","B","C","D","E","F","G","H","I","J","K","L","M",
              "N","O","P","Q","R","S","T","U","V","W","X","Y","Z">>
LowerSeq == <<"a","b","c","d","e","f","g","h","i","j","k","l","m",
              "n","o","p","q","r","s","t","u","v","w","x","y","z">>
Digits == {"0","1","2","3","4","5","6","7","8","9"}

Range(f) == {f[i] : i \in DOMAIN f}

IsUpper(ch) == ch \in Range(UpperSeq)                 \* /[A-Z]/
IsLower(ch) == ch \in Range(LowerSeq)
IsLetter(ch) == IsUpper(ch) \/ IsLower(ch)            \* /[A-Za-z]/
IsSpace(ch) == ch \in {" ", "\t"}                     \* /\s/

ToUpperCh(ch) ==
    IF IsLower(ch) THEN UpperSeq[CHOOSE i \in DOMAIN LowerSeq : LowerSeq[i] = ch]
    ELSE ch

toUpperCase(str) == [i \in DOMAIN str |-> ToUpperCh(str[i])]

RECURSIVE TrimLeft(_)
TrimLeft(str) ==
    IF str # <<>> /\ IsSpace(Head(str)) THEN TrimLeft(Tail(str)) ELSE str

RECURSIVE TrimRight(_)
TrimRight(str) ==
    IF str # <<>> /\ IsSpace(str[Len(str)])
    THEN TrimRight(SubSeq(str, 1, Len(str) - 1)) ELSE str

trim(str) == TrimRight(TrimLeft(str))

\* str.replace(/\s+/g, " "): every run of whitespace becomes one space
RECURSIVE CollapseWs(_)
CollapseWs(str) ==
    IF str = <<>> THEN <<>>
    ELSE IF IsSpace(Head(str))
         THEN <<" ">> \o CollapseWs(TrimLeft(str))
         ELSE <<Head(str)>> \o CollapseWs(Tail(str))

AllowedW == Range(UpperSeq) \cup {" ", "'", "-", "."}
AllowedB == Range(UpperSeq) \cup Digits \cup {" ", "'", "-", "."}

NormalizeWith(allowed, input) ==
    LET up == trim(CollapseWs(toUpperCase(input)))
    IN  IF \E i \in DOMAIN up : up[i] \notin allowed THEN Null ELSE up

normalizePhrase(input) == NormalizeWith(AllowedW, input)
normalizePhraseB(input) == NormalizeWith(AllowedB, input)

\* `!norm`: null and the empty string are both falsy
Falsy(str) == str = Null \/ str = <<>>

\* a faulty mask: no letter is ever shown
MaskHidesAll(raw, guessedSet) ==
    [i \in DOMAIN raw |-> IF IsLetter(raw[i]) THEN "_" ELSE raw[i]]

buildMasked(raw, guessedSet) ==
    [i \in DOMAIN raw |->
        IF IsLetter(raw[i])
        THEN (IF ToUpperCh(raw[i]) \in guessedSet THEN ToUpperCh(raw[i]) ELSE "_")
        ELSE raw[i]]

buildMaskedB(raw, guessedSet) ==
    [i \in DOMAIN raw |->
        IF IsUpper(raw[i])
        THEN (IF raw[i] \in guessedSet THEN raw[i] ELSE "_")
        ELSE raw[i]]

Includes(str, ch) == \E i \in DOMAIN str : str[i] = ch

----------------------------------------------------------------------------
(* Sequences of players *)

\* index of the first element for which Test holds, 0 when there is none
FirstIdx(seq, Test(_)) ==
    IF \E i \in DOMAIN seq : Test(seq[i])
    THEN CHOOSE i \in DOMAIN seq :
            Test(seq[i]) /\ \A j \in 1 .. (i - 1) : ~Test(seq[j])
    ELSE 0

RemoveAt(seq, i) == SubSeq(seq, 1, i - 1) \o SubSeq(seq, i + 1, Len(seq))

IdxOfId(players, id) == LET T(p) == p.id = id IN FirstIdx(players, T)
IdxOfName(players, name) == LET T(p) == p.name = name IN FirstIdx(players, T)
IdxOfManager(players, id) ==
    LET T(p) == p.id = id /\ p.isManager IN FirstIdx(players, T)

\* guesserOrder.indexOf(id), 1-based, 0 when absent
IndexOf(seq, x) == LET T(e) == e = x IN FirstIdx(seq, T)

Ids(players) == [i \in DOMAIN players |-> players[i].id]

\* String(name || "Player").slice(0, 16); the names used are shorter than 16
SafeName(name) == IF name = "" THEN "Player" ELSE name

----------------------------------------------------------------------------
(* Session registry *)

Has(code) == code \in DOMAIN sessions

Del(map, code) == [k \in (DOMAIN map) \ {code} |-> map[k]]

Put(map, code, s) == [k \in (DOMAIN map) \cup {code} |->
                         IF k = code THEN s ELSE map[k]]

IsExpired(s) == now - s.createdAt > CODE_TTL_MS

\* getSession(code) returns a session (TRUE) or null (FALSE) ...
getSession(code) == Has(code) /\ ~IsExpired(sessions[code])

\* ... and deletes an expired session as a side effect
AfterGetSession(code) ==
    IF Has(code) /\ IsExpired(sessions[code]) THEN Del(sessions, code)
    ELSE sessions

\* the codes makeCode's do-while loop can end with
makeCode == Codes \ DOMAIN sessions

SettingsW == [rounds |-> 3, minLen |-> 3, maxLen |-> 50,
              wrongLimit |-> 6, unlimitedWrong |-> FALSE]
SettingsB == [rounds |-> 3, minLen |-> 3, maxLen |-> 50]

createSession(atvSocketId) ==
    [atvSocketId |-> atvSocketId, createdAt |-> now, players |-> <<>>,
     settings |-> SettingsW, game |-> NoGame]

createSessionB(atvSocketId) ==
    [atvSocketId |-> atvSocketId, createdAt |-> now, players |-> <<>>,
     settings |-> SettingsB, game |-> NoGame]

----------------------------------------------------------------------------
(* Emitted events: [ev, to]; `to` is "self" (socket.emit), "atv" (the host's  *)
(* socket) or a room, named by its code (io.to(code).emit)                  *)

Ev(name, to) == [ev |-> name, to |-> to]

\* emitSessionPlayers(code); emitGameState(code) on the map `map`
emitSessionPlayers(map, code) ==
    IF code \in DOMAIN map THEN {Ev("session:players", code)} ELSE {}
emitGameState(map, code) ==
    IF code \in DOMAIN map THEN {Ev("game:state", code)} ELSE {}
Snapshots(map, code) == emitSessionPlayers(map, code) \cup emitGameState(map, code)

\* the outcome of a handler: registry, socket data, open sockets, emissions
Out(newSessions, newSockCode, newOpen, ems) ==
    [sessions |-> newSessions, sockCode |-> newSockCode, open |-> newOpen,
     emits |-> ems]

\* ... when only the handling socket's data.code can change
Handled(c, newSessions, newCode, ems) ==
    Out(newSessions, [sockCode EXCEPT ![c] = newCode], open, ems)

\* a handler that returns at once
Ignored(c) == Out(sessions, sockCode, open, {})

\* the players a session may have: a list grows up to MaxPlayers only
Room(code) ==
    IF code \in DOMAIN sessions /\ Len(sessions[code].players) > MaxPlayers
    THEN IF Len(sessions[code].players) >= PlayerCap - 1
         THEN PlayerCap + 1
         ELSE Len(sessions[code].players)
    ELSE MaxPlayers

\* the bounds of the model, on a registry
InBounds(map) ==
    \A code \in DOMAIN map :
        /\ Len(map[code].players) <= Room(code)
        /\ \A i \in DOMAIN map[code].players : map[code].players[i].score <= MaxScore
        /\ map[code].game # NoGame =>
              /\ map[code].game.setterPointer <= MaxPointer
              /\ map[code].game.round # NoRound =>
                    map[code].game.round.wrongCount <= MaxWrong

\* the server handles an event of the open socket c with outcome o
Takes(c, o) ==
    /\ open[c]
    /\ InBounds(o.sessions)
    /\ sessions' = o.sessions
    /\ sockCode' = o.sockCode
    /\ open' = o.open
    /\ UNCHANGED <<variant, now, timers>>

----------------------------------------------------------------------------
(* Presence and membership *)

Player(id, name, isManager) ==
    [id |-> id, name |-> name, isManager |-> isManager, score |-> 0]

\* code is the code makeCode returned
AtvCreate(c, code, fresh) ==
    Handled(c, Put(sessions, code, fresh), code,
            {Ev("session:created", "self")}
                \cup Snapshots(Put(sessions, code, fresh), code))

OnAtvCreateSessionW(c, code) == AtvCreate(c, code, createSession(c))
OnAtvCreateSessionB(c, code) == AtvCreate(c, code, createSessionB(c))

OnAtvGetPlayersW(c, code) ==
       IF ~getSession(code)
       THEN Handled(c, AfterGetSession(code), sockCode[c],
                    {Ev("session:ended", "self")})
       ELSE Handled(c, sessions, code, Snapshots(sessions, code))

\* a faulty atv:getPlayers that leaves s.atvSocketId as it was
GetPlayersKeepsHost(c, code) ==
       IF ~getSession(code)
       THEN Handled(c, AfterGetSession(code), sockCode[c],
                    {Ev("session:ended", "self")})
       ELSE Handled(c, sessions, code,
                    {Ev("session:created", "self")} \cup Snapshots(sessions, code))

OnAtvGetPlayersB(c, code) ==
       IF ~getSession(code)
       THEN Handled(c, AfterGetSession(code), sockCode[c],
                    {Ev("session:ended", "self")})
       ELSE LET s == [sessions[code] EXCEPT !.atvSocketId = c]
            IN  Handled(c, Put(sessions, code, s), code,
                        {Ev("session:created", "self")} \cup Snapshots(sessions, code))

\* s.players.push(...) of join: the first player is the manager
JoinPush(s, c, name) ==
    [s EXCEPT !.players =
        Append(@, Player(c, SafeName(name), Len(s.players) = 0))]

OnPlayerJoinW(c, code, name) ==
       IF ~getSession(code)
       THEN Handled(c, AfterGetSession(code), sockCode[c], {Ev("error:join", "self")})
       ELSE Handled(c, Put(sessions, code, JoinPush(sessions[code], c, name)),
                       code,
                       {Ev("player:joined", "self")} \cup Snapshots(sessions, code))

OnPlayerJoinB(c, code, name) ==
       IF ~getSession(code)
       THEN Handled(c, AfterGetSession(code), sockCode[c], {Ev("error:join", "self")})
       ELSE IF Len(sessions[code].players) >= PlayerCap
       THEN Handled(c, sessions, sockCode[c], {Ev("error:join", "self")})
       ELSE Handled(c, Put(sessions, code, JoinPush(sessions[code], c, name)),
                       code,
                       {Ev("player:joined", "self")} \cup Snapshots(sessions, code))

\* rejoin in W: the player is looked up by socket id
RejoinW(s, c, name) ==
    LET i == IdxOfId(s.players, c)
    IN  IF i = 0
        THEN [s EXCEPT !.players =
                 Append(@, Player(c, SafeName(name), Len(s.players) = 0))]
        ELSE [s EXCEPT !.players[i].name =
                 IF name = "" THEN @ ELSE name]

OnPlayerRejoinW(c, code, name) ==
       IF ~getSession(code)
       THEN Handled(c, AfterGetSession(code), sockCode[c], {Ev("error:join", "self")})
       ELSE Handled(c, Put(sessions, code, RejoinW(sessions[code], c, name)),
                       code,
                       {Ev("player:joined", "self")} \cup Snapshots(sessions, code))

\* a faulty rejoin: the slot is taken over as a new player's
RejoinResets(s, c, name) ==
    LET i == IdxOfName(s.players, SafeName(name))
    IN  IF i # 0
        THEN [s EXCEPT !.players[i] = Player(c, SafeName(name), FALSE)]
        ELSE [s EXCEPT !.players = Append(@, Player(c, SafeName(name), FALSE))]

\* rejoin in B: the player is looked up by name, and takes the new socket id
RejoinB(s, c, name) ==
    LET i == IdxOfName(s.players, SafeName(name))
    IN  IF i # 0
        THEN [s EXCEPT !.players[i].id = c]
        ELSE [s EXCEPT !.players = Append(@, Player(c, SafeName(name), FALSE))]

OnPlayerRejoinB(c, code, name) ==
       IF ~getSession(code)
       THEN Handled(c, AfterGetSession(code), sockCode[c], {})
       ELSE Handled(c, Put(sessions, code, RejoinB(sessions[code], c, name)),
                       code,
                       {Ev("player:joined", "self")} \cup Snapshots(sessions, code))

\* rename: String(name || "").trim().slice(0, 24), ignored when empty
Rename(c, name) ==
    LET code == sockCode[c]
    IN  IF ~Has(code) THEN Ignored(c)
        ELSE LET s == sessions[code]
                 i == IdxOfId(s.players, c)
             IN  IF name = "" \/ i = 0 THEN Ignored(c)
                 ELSE Handled(c, Put(sessions, code,
                                     [s EXCEPT !.players[i].name = name]),
                              code, Snapshots(sessions, code))

OnPlayerRenameW(c, name) == Rename(c, name)
OnPlayerRenameB(c, name) == Rename(c, name)

----------------------------------------------------------------------------
(* Round and turn engine: helpers *)

\* the session with its game replaced, and with its round replaced
WithGame(s, g) == [s EXCEPT !.game = g]
WithRound(s, r) == [s EXCEPT !.game.round = r]

HasGame(s) == s.game # NoGame
HasRound(s) == HasGame(s) /\ s.game.round # NoRound

RECURSIVE Repeat(_, _)
Repeat(seq, n) == IF n <= 0 THEN <<>> ELSE seq \o Repeat(seq, n - 1)

\* a faulty order: one lap whatever the rounds setting
OneLap(s) == Ids(s.players)

\* ids in join order, once per lap; laps = Math.max(1, parseInt(rounds || 1))
buildSetterOrder(s) ==
    Repeat(Ids(s.players), IF s.settings.rounds >= 1 THEN s.settings.rounds ELSE 1)

\* JavaScript arrays are 0-based, the sequences here 1-based
At(seq, i) == seq[i + 1]

FreshRound(setterId) ==
    [raw |-> <<>>, masked |-> <<>>, guessedLetters |-> <<>>, hint |-> "",
     hintShown |-> FALSE, setterId |-> setterId, winnerId |-> NoConn,
     wrongCount |-> 0, guesserOrder |-> <<>>, turnIndex |-> 0]

\* B's round is born without guesserOrder and turnIndex; every read of them
\* treats undefined as the empty order, and B never reads wrongCount
FreshRoundB(setterId) == FreshRound(setterId)

startWaitingForPhrase(s) ==
    [s EXCEPT !.game.round = FreshRound(At(s.game.setterOrder, s.game.setterPointer)),
              !.game.state = "waiting_phrase"]

startWaitingForPhraseB(s) ==
    [s EXCEPT !.game.round = FreshRoundB(At(s.game.setterOrder, s.game.setterPointer)),
              !.game.state = "waiting_phrase"]

\* maybeGameOver: TRUE when the setter order is used up ...
maybeGameOver(s) == s.game.setterPointer >= Len(s.game.setterOrder)

\* a faulty GameOver: the round is dropped, the state is left as it was
GameOverKeepsState(s) == [s EXCEPT !.game.round = NoRound]

\* ... and then the game is over and the round dropped
GameOver(s) == [s EXCEPT !.game.state = "over", !.game.round = NoRound]

currentTurnPlayerId(s) ==
    IF ~HasRound(s) THEN NoConn
    ELSE IF Len(s.game.round.guesserOrder) = 0 THEN NoConn
    ELSE At(s.game.round.guesserOrder,
            s.game.round.turnIndex % Len(s.game.round.guesserOrder))

\* a faulty snapshot that sends the phrase itself in the place of the mask
PayloadLeaksRaw(s) ==
    [state |-> IF HasGame(s) THEN s.game.state ELSE "idle",
     masked |-> IF HasRound(s) THEN s.game.round.raw ELSE <<>>,
     guessedLetters |-> IF HasRound(s) THEN s.game.round.guessedLetters ELSE <<>>,
     winnerId |-> IF HasRound(s) THEN s.game.round.winnerId ELSE NoConn]

\* the payload of game:state: what emitGameState sends of the session s
GameStatePayload(s) ==
    [state |-> IF HasGame(s) THEN s.game.state ELSE "idle",
     roundsTotal |-> s.settings.rounds,
     roundIndex |-> IF HasGame(s) THEN s.game.setterPointer ELSE -1,
     setterId |-> IF HasRound(s) THEN s.game.round.setterId ELSE NoConn,
     currentTurnId |-> IF HasGame(s) /\ s.game.state = "active"
                       THEN currentTurnPlayerId(s) ELSE NoConn,
     hintShown |-> IF HasRound(s) THEN s.game.round.hintShown ELSE FALSE,
     masked |-> IF HasRound(s) THEN s.game.round.masked ELSE <<>>,
     guessedLetters |-> IF HasRound(s) THEN s.game.round.guessedLetters ELSE <<>>,
     winnerId |-> IF HasRound(s) THEN s.game.round.winnerId ELSE NoConn,
     wrongLimit |-> IF s.settings.unlimitedWrong THEN "null"
                    ELSE s.settings.wrongLimit,
     wrongCount |-> IF HasRound(s) THEN s.game.round.wrongCount ELSE 0,
     scores |-> [i \in DOMAIN s.players |->
                    [id |-> s.players[i].id, score |-> s.players[i].score]]]

\* a faulty turn: the guesser keeps it
TurnStays(s) == s

advanceTurn(s) ==
    IF Len(s.game.round.guesserOrder) = 0 THEN s
    ELSE [s EXCEPT !.game.round.turnIndex =
             (@ + 1) % Len(s.game.round.guesserOrder)]

\* winner.score = (winner.score || 0) + pts for the first player with this id
Credit(s, id, pts) ==
    LET i == IdxOfId(s.players, id)
    IN  IF i = 0 THEN s ELSE [s EXCEPT !.players[i].score = @ + pts]

\* a faulty award: the setter paid like a solver
SymmetricPoints(hintShown) == IF hintShown THEN 1 ELSE 2

\* the points the setter gets for a forfeit
SetterPoints(hintShown) == IF hintShown THEN 2 ELSE 1

\* the points a guesser gets for a win
SolverPoints(hintShown) == IF hintShown THEN 1 ELSE 2

finishRoundWithSetterWin(s) ==
    LET r == s.game.round
    IN  Credit([s EXCEPT !.game.state = "won",
                         !.game.round.winnerId = r.setterId,
                         !.game.round.masked = r.raw],
               r.setterId, SetterPoints(r.hintShown))

GuesserWin(s, meId) ==
    Credit([s EXCEPT !.game.state = "won", !.game.round.winnerId = meId],
           meId, SolverPoints(s.game.round.hintShown))

----------------------------------------------------------------------------
(* Manager events *)

Str(seq) == seq     \* String(x || ""): the inputs are strings already

PhraseInputs == { <<"A","B","A">>, <<"a"," "," ","a">> }
GuessInputs == PhraseInputs \cup { <<"A","!">> }
SettingsInputsB == { [rounds |-> 1, minLen |-> 4] }
SettingsInputsW == { [rounds |-> 1, wrongLimit |-> 2], [unlimitedWrong |-> TRUE] }

Given(p, f) == f \in DOMAIN p       \* the payload carries field f

\* the three assignments both servers make
SetLengths(st, p) ==
    LET a == IF Given(p, "rounds") /\ p.rounds >= 1 /\ p.rounds <= 20
             THEN [st EXCEPT !.rounds = p.rounds] ELSE st
        b == IF Given(p, "minLen") /\ p.minLen >= 1 /\ p.minLen <= 40
             THEN [a EXCEPT !.minLen = p.minLen] ELSE a
    IN  IF Given(p, "maxLen") /\ p.maxLen >= b.minLen /\ p.maxLen <= 60
        THEN [b EXCEPT !.maxLen = p.maxLen] ELSE b

Clamp(lo, hi, x) == IF x < lo THEN lo ELSE IF x > hi THEN hi ELSE x

SetWrong(st, p) ==
    LET a == IF Given(p, "unlimitedWrong")
             THEN [st EXCEPT !.unlimitedWrong = p.unlimitedWrong] ELSE st
    IN  IF ~a.unlimitedWrong /\ Given(p, "wrongLimit")
        THEN [a EXCEPT !.wrongLimit = Clamp(1, 26, p.wrongLimit)] ELSE a

\* a faulty role test: any player of the session passes
AnyPlayer(s, c) == IdxOfId(s.players, c) # 0

\* me = s.players.find(p => p.id === socket.id); me?.isManager
MeIsManager(s, c) ==
    IdxOfId(s.players, c) # 0 /\ s.players[IdxOfId(s.players, c)].isManager

\* s.players.find(p => p.id === socket.id && p.isManager)
FindManager(s, c) == IdxOfManager(s.players, c) # 0

\* a faulty lock: the settings stay open after the start
NeverLocked(s) == FALSE

\* B: settings lock once the game is not idle
SettingsLocked(s) == HasGame(s) /\ s.game.state # "idle"

OnManagerSetSettingsW(c, p) ==
       LET code == sockCode[c]
       IN  IF ~Has(code) THEN Ignored(c)
           ELSE IF ~MeIsManager(sessions[code], c) THEN Ignored(c)
           ELSE Handled(c,
                    Put(sessions, code,
                        [sessions[code] EXCEPT !.settings = SetWrong(SetLengths(@, p), p)]),
                    code, emitGameState(sessions, code))

OnManagerSetSettingsB(c, p) ==
       LET code == sockCode[c]
       IN  IF ~Has(code) THEN Ignored(c)
           ELSE IF ~MeIsManager(sessions[code], c) THEN Ignored(c)
           ELSE IF SettingsLocked(sessions[code]) THEN Ignored(c)
           ELSE Handled(c,
                    Put(sessions, code,
                        [sessions[code] EXCEPT !.settings = SetLengths(@, p)]),
                    code, emitGameState(sessions, code))

\* s.game = s.game || {}; setterOrder and setterPointer set by startGame
StartedGame(s) ==
    [state |-> IF HasGame(s) THEN s.game.state ELSE "idle",
     round |-> IF HasGame(s) THEN s.game.round ELSE NoRound,
     setterOrder |-> buildSetterOrder(s),
     setterPointer |-> 0]

StartedGameB(s) ==
    [state |-> IF HasGame(s) THEN s.game.state ELSE "idle",
     round |-> IF HasGame(s) THEN s.game.round ELSE NoRound,
     roundIndex |-> 0,
     setterOrder |-> buildSetterOrder(s),
     setterPointer |-> 0]

StartGameW(s) ==
    LET t == WithGame(s, StartedGame(s))
    IN  IF Len(t.game.setterOrder) = 0
        THEN [t EXCEPT !.game.state = "idle"]
        ELSE startWaitingForPhrase(t)

StartGameB(s) ==
    LET t == WithGame(s, StartedGameB(s))
    IN  IF Len(t.game.setterOrder) = 0
        THEN [t EXCEPT !.game.state = "idle"]
        ELSE startWaitingForPhraseB(t)

\* what startGame emits: one game:state, or startWaitingForPhrase's snapshots
StartEmits(t, code) ==
    IF t.game.state = "idle" THEN {Ev("game:state", code)}
    ELSE {Ev("session:players", code), Ev("game:state", code)}

OnManagerStartGameW(c) ==
       LET code == sockCode[c]
       IN  IF ~Has(code) THEN Ignored(c)
           ELSE IF ~FindManager(sessions[code], c) THEN Ignored(c)
           ELSE Handled(c, Put(sessions, code, StartGameW(sessions[code])), code,
                        StartEmits(StartGameW(sessions[code]), code))

OnManagerStartGameB(c) ==
       LET code == sockCode[c]
       IN  IF ~Has(code) THEN Ignored(c)
           ELSE IF ~FindManager(sessions[code], c) THEN Ignored(c)
           ELSE IF Len(sessions[code].players) < 2
           THEN Handled(c, sessions, code, {Ev("error:start", "self")})
           ELSE Handled(c, Put(sessions, code, StartGameB(sessions[code])), code,
                        StartEmits(StartGameB(sessions[code]), code))

\* setterPointer += 1, then game over or the next setter's round
NextRoundW(s) ==
    LET t == [s EXCEPT !.game.setterPointer = @ + 1]
    IN  IF maybeGameOver(t) THEN GameOver(t) ELSE startWaitingForPhrase(t)

NextRoundB(s) ==
    LET t == [s EXCEPT !.game.setterPointer = @ + 1]
    IN  IF maybeGameOver(t) THEN GameOver(t) ELSE startWaitingForPhraseB(t)

NextEmits(t, code) ==
    IF t.game.state = "over" THEN {Ev("game:state", code)}
    ELSE {Ev("session:players", code), Ev("game:state", code)}

OnManagerNextRoundW(c) ==
       LET code == sockCode[c]
       IN  IF ~Has(code) THEN Ignored(c)
           ELSE IF ~HasGame(sessions[code]) THEN Ignored(c)
           ELSE IF ~FindManager(sessions[code], c) THEN Ignored(c)
           ELSE Handled(c, Put(sessions, code, NextRoundW(sessions[code])), code,
                           NextEmits(NextRoundW(sessions[code]), code))

OnManagerNextRoundB(c) ==
       LET code == sockCode[c]
       IN  IF ~Has(code) THEN Ignored(c)
           ELSE IF ~HasGame(sessions[code]) THEN Ignored(c)
           ELSE IF ~FindManager(sessions[code], c) THEN Ignored(c)
           ELSE Handled(c, Put(sessions, code, NextRoundB(sessions[code])), code,
                           NextEmits(NextRoundB(sessions[code]), code))

\* endGame (W only): the session is deleted, and the host, when its socket
\* is still connected, gets a fresh session at once, under the code newCode
\* that makeCode returns then
\* a faulty manager:endGame that clears the whole registry
EndGameEndsAll(c, newCode) ==
       LET code == sockCode[c]
       IN  IF ~Has(code) THEN Ignored(c)
           ELSE IF ~FindManager(sessions[code], c) THEN Ignored(c)
           ELSE Handled(c, <<>>, code, {Ev("session:ended", code)})

OnManagerEndGameW(c, newCode) ==
       LET code == sockCode[c]
       IN  IF ~Has(code) THEN Ignored(c)
           ELSE IF ~FindManager(sessions[code], c) THEN Ignored(c)
           ELSE LET atvId == sessions[code].atvSocketId
                    rest == Del(sessions, code)
                IN  IF atvId \in DOMAIN open /\ open[atvId]
                    THEN Out(Put(rest, newCode, createSession(atvId)),
                             [sockCode EXCEPT ![atvId] = newCode], open,
                             {Ev("session:ended", code),
                              Ev("session:created", "atv"),
                              Ev("session:players", newCode),
                              Ev("game:state", newCode)})
                    ELSE Handled(c, rest, code, {Ev("session:ended", code)})

----------------------------------------------------------------------------
(* Setter events *)

\* a faulty filter: the setter stays among the guessers
Everyone(seq, x) == seq

\* s.players.filter(p => p.id !== r.setterId).map(p => p.id)
RECURSIVE Without(_, _)
Without(seq, x) ==
    IF seq = <<>> THEN <<>>
    ELSE IF Head(seq) = x THEN Without(Tail(seq), x)
    ELSE <<Head(seq)>> \o Without(Tail(seq), x)

\* the round a phrase opens; raw is the canonical phrase, mask the masker
OpenRound(s, raw, masked, hint) ==
    [s EXCEPT !.game.round.raw = raw,
              !.game.round.hint = hint,
              !.game.round.hintShown = FALSE,
              !.game.round.guessedLetters = <<>>,
              !.game.round.wrongCount = 0,
              !.game.round.masked = masked,
              !.game.round.guesserOrder = Without(Ids(s.players), s.game.round.setterId),
              !.game.round.turnIndex = 0,
              !.game.state = "active"]

\* W: length checked against the settings, raw only trimmed and upper-cased
PhraseOkW(s, phrase) ==
    /\ Len(trim(Str(phrase))) >= s.settings.minLen
    /\ Len(trim(Str(phrase))) <= s.settings.maxLen

SubmitW(s, phrase, hint) ==
    OpenRound(s, toUpperCase(trim(Str(phrase))),
              buildMasked(toUpperCase(trim(Str(phrase))), {}), hint)

\* B: length checked against 3 and 50, raw is the normalized phrase
PhraseLenOkB(phrase) ==
    Len(trim(Str(phrase))) >= 3 /\ Len(trim(Str(phrase))) <= 50

SubmitB(s, phrase, hint) ==
    OpenRound(s, normalizePhraseB(trim(Str(phrase))),
              buildMaskedB(normalizePhraseB(trim(Str(phrase))), {}), hint)

\* the guard both servers put before a setter event
IsSetter(s, c, state) ==
    /\ HasGame(s) /\ s.game.state = state
    /\ HasRound(s) /\ s.game.round.setterId = c

OnSetterSubmitPhraseW(c, phrase, hint) ==
       LET code == sockCode[c]
       IN  IF ~Has(code) THEN Ignored(c)
           ELSE IF ~IsSetter(sessions[code], c, "waiting_phrase") THEN Ignored(c)
           ELSE IF ~PhraseOkW(sessions[code], phrase)
           THEN Handled(c, sessions, code, {Ev("error:phrase", "self")})
           ELSE Handled(c, Put(sessions, code, SubmitW(sessions[code], phrase, hint)),
                        code, {Ev("game:state", code), Ev("setter:ok", "self")})

OnSetterSubmitPhraseB(c, phrase, hint) ==
       LET code == sockCode[c]
       IN  IF ~Has(code) THEN Ignored(c)
           ELSE IF ~IsSetter(sessions[code], c, "waiting_phrase") THEN Ignored(c)
           ELSE IF ~PhraseLenOkB(phrase)
           THEN Handled(c, sessions, code, {Ev("error:phrase", "self")})
           ELSE IF Falsy(normalizePhraseB(trim(Str(phrase))))
           THEN Handled(c, sessions, code, {Ev("error:phrase", "self")})
           ELSE Handled(c, Put(sessions, code, SubmitB(sessions[code], phrase, hint)),
                        code, {Ev("game:state", code), Ev("setter:ok", "self")})

\* a faulty handler: the hint is sent every time the setter asks
ShowHintAgain(c) ==
    LET code == sockCode[c]
    IN  IF ~Has(code) THEN Ignored(c)
        ELSE IF ~IsSetter(sessions[code], c, "active") THEN Ignored(c)
        ELSE Handled(c, Put(sessions, code,
                            [sessions[code] EXCEPT !.game.round.hintShown = TRUE]),
                     code, {Ev("game:hint", code), Ev("game:state", code)})

ShowHint(c) ==
    LET code == sockCode[c]
    IN  IF ~Has(code) THEN Ignored(c)
        ELSE IF ~IsSetter(sessions[code], c, "active") THEN Ignored(c)
        ELSE IF sessions[code].game.round.hintShown THEN Ignored(c)
        ELSE Handled(c, Put(sessions, code,
                            [sessions[code] EXCEPT !.game.round.hintShown = TRUE]),
                     code, {Ev("game:hint", code), Ev("game:state", code)})

OnSetterShowHintW(c) == ShowHint(c)
OnSetterShowHintB(c) == ShowHint(c)

----------------------------------------------------------------------------
(* Guesser events *)

\* the guard both servers put before a guess: active, and the sender's turn
MyTurn(s, c) ==
    /\ HasGame(s) /\ s.game.state = "active"
    /\ c = currentTurnPlayerId(s)

\* a guard that forgets the letters already guessed
LetterOkRepeats(s, letter) == IsUpper(ToUpperCh(letter))

\* String(letter || "").toUpperCase() passes /^[A-Z]$/ and is new
LetterOk(s, letter) ==
    /\ IsUpper(ToUpperCh(letter))
    /\ ~Includes(s.game.round.guessedLetters, ToUpperCh(letter))

Pushed(s, L) == [s EXCEPT !.game.round.guessedLetters = Append(@, L)]

Remasked(s) ==
    [s EXCEPT !.game.round.masked =
        buildMasked(s.game.round.raw, Range(s.game.round.guessedLetters))]

RemaskedB(s) ==
    [s EXCEPT !.game.round.masked =
        buildMaskedB(s.game.round.raw, Range(s.game.round.guessedLetters))]

\* a faulty limit: the round is forfeited one wrong guess late
WrongGuessOffByOne(s) ==
    LET t == [s EXCEPT !.game.round.wrongCount = @ + 1]
    IN  IF ~t.settings.unlimitedWrong
           /\ t.game.round.wrongCount > t.settings.wrongLimit
        THEN finishRoundWithSetterWin(t)
        ELSE advanceTurn(t)

\* a wrong guess in W: count it, then forfeit or pass the turn
WrongGuess(s) ==
    LET t == [s EXCEPT !.game.round.wrongCount = @ + 1]
    IN  IF ~t.settings.unlimitedWrong
           /\ t.game.round.wrongCount >= t.settings.wrongLimit
        THEN finishRoundWithSetterWin(t)
        ELSE advanceTurn(t)

GuessLetterW(s, c, L) ==
    LET t == Pushed(s, L)
    IN  IF Includes(t.game.round.raw, L)
        THEN IF ~Includes(Remasked(t).game.round.masked, "_")
             THEN GuesserWin(Remasked(t), c)
             ELSE advanceTurn(Remasked(t))
        ELSE WrongGuess(t)

GuessLetterB(s, c, L) ==
    LET t == RemaskedB(Pushed(s, L))
    IN  IF ~Includes(t.game.round.masked, "_")
        THEN GuesserWin(t, c)
        ELSE advanceTurn(t)

OnPlayerGuessLetterW(c, letter) ==
       LET code == sockCode[c]
       IN  IF ~Has(code) THEN Ignored(c)
           ELSE IF ~MyTurn(sessions[code], c) THEN Ignored(c)
           ELSE IF ~LetterOk(sessions[code], letter) THEN Ignored(c)
           ELSE Handled(c, Put(sessions, code,
                                  GuessLetterW(sessions[code], c, ToUpperCh(letter))),
                           code, {Ev("game:state", code)})

\* B also re-sends the players when the guess wins
WinEmitsB(t, code) ==
    IF t.game.state = "won"
    THEN {Ev("session:players", code), Ev("game:state", code)}
    ELSE {Ev("game:state", code)}

OnPlayerGuessLetterB(c, letter) ==
       LET code == sockCode[c]
       IN  IF ~Has(code) THEN Ignored(c)
           ELSE IF ~MyTurn(sessions[code], c) THEN Ignored(c)
           ELSE IF ~LetterOk(sessions[code], letter) THEN Ignored(c)
           ELSE Handled(c, Put(sessions, code,
                                  GuessLetterB(sessions[code], c, ToUpperCh(letter))),
                           code,
                           WinEmitsB(GuessLetterB(sessions[code], c, ToUpperCh(letter)),
                                     code))

\* an exact match reveals the phrase
Solved(s, c) == GuesserWin([s EXCEPT !.game.round.masked = s.game.round.raw], c)

SolveW(s, c, normGuess) ==
    IF normGuess = s.game.round.raw THEN Solved(s, c) ELSE WrongGuess(s)

SolveB(s, c, normGuess) ==
    IF normGuess = s.game.round.raw THEN Solved(s, c) ELSE advanceTurn(s)

OnPlayerSolveW(c, guess) ==
       LET code == sockCode[c]
       IN  IF ~Has(code) THEN Ignored(c)
           ELSE IF ~MyTurn(sessions[code], c) THEN Ignored(c)
           ELSE IF Falsy(normalizePhrase(guess)) THEN Ignored(c)
           ELSE Handled(c, Put(sessions, code,
                                  SolveW(sessions[code], c, normalizePhrase(guess))),
                           code, {Ev("game:state", code)})

OnPlayerSolveB(c, guess) ==
       LET code == sockCode[c]
       IN  IF ~Has(code) THEN Ignored(c)
           ELSE IF ~MyTurn(sessions[code], c) THEN Ignored(c)
           ELSE IF Falsy(normalizePhraseB(guess)) THEN Ignored(c)
           ELSE Handled(c, Put(sessions, code,
                                  SolveB(sessions[code], c, normalizePhraseB(guess))),
                           code,
                           WinEmitsB(SolveB(sessions[code], c, normalizePhraseB(guess)),
                                     code))

----------------------------------------------------------------------------
(* Disconnect *)

\* the socket is gone for good; its data goes with it
Closed(c, newSessions, ems) ==
    Out(newSessions, [sockCode EXCEPT ![c] = NoCode],
        [open EXCEPT ![c] = FALSE], ems)

\* a faulty removal: nobody is promoted
RemovePlayerNoPromotion(s, idx) == [s EXCEPT !.players = RemoveAt(s.players, idx)]

\* s.players.splice(idx, 1), and the first remaining player promoted when the
\* removed one was the manager
RemovePlayer(s, idx) ==
    LET rest == RemoveAt(s.players, idx)
    IN  [s EXCEPT !.players =
            IF s.players[idx].isManager /\ Len(rest) > 0
            THEN [rest EXCEPT ![1].isManager = TRUE]
            ELSE rest]

\* the removed id leaves the guesser order (its first occurrence)
DropGuesser(s, removedId) ==
    LET gidx == IndexOf(s.game.round.guesserOrder, removedId)
    IN  IF gidx = 0 THEN s
        ELSE [s EXCEPT !.game.round.guesserOrder = RemoveAt(@, gidx)]

\* a faulty test: a round goes on without guessers
RoundGoesOn(s) == FALSE

NoGuesserLeft(s) ==
    Len(s.game.round.guesserOrder) = 0 /\ s.game.state = "active"

\* W: a round without guessers is forfeited to the setter
PhoneLeavesW(s, c) ==
    LET idx == IdxOfId(s.players, c)
        t == RemovePlayer(s, idx)
    IN  IF idx = 0 THEN s
        ELSE IF ~HasRound(t) THEN t
        ELSE IF NoGuesserLeft(DropGuesser(t, c))
        THEN finishRoundWithSetterWin(DropGuesser(t, c))
        ELSE DropGuesser(t, c)

\* B: a round without guessers is closed with no winner
PhoneLeavesB(s, c) ==
    LET idx == IdxOfId(s.players, c)
        t == RemovePlayer(s, idx)
    IN  IF idx = 0 THEN s
        ELSE IF ~HasRound(t) THEN t
        ELSE IF NoGuesserLeft(DropGuesser(t, c))
        THEN [DropGuesser(t, c) EXCEPT !.game.state = "won",
                                       !.game.round.winnerId = NoConn]
        ELSE DropGuesser(t, c)

OnDisconnectW(c) ==
       LET code == sockCode[c]
       IN  IF code = NoCode \/ ~Has(code) THEN Closed(c, sessions, {})
           ELSE IF sessions[code].atvSocketId = c
           THEN Closed(c, Del(sessions, code), {Ev("session:ended", code)})
           ELSE Closed(c, Put(sessions, code, PhoneLeavesW(sessions[code], c)),
                          Snapshots(sessions, code))

\* a faulty disconnect: the session always ends with its host
DisconnectEndsSession(c) ==
       LET code == sockCode[c]
       IN  IF code = NoCode \/ ~Has(code) THEN Closed(c, sessions, {})
           ELSE IF sessions[code].atvSocketId = c
           THEN Closed(c, Del(sessions, code), {Ev("session:ended", code)})
           ELSE Closed(c, Put(sessions, code, PhoneLeavesB(sessions[code], c)),
                       Snapshots(sessions, code))

OnDisconnectB(c) ==
       LET code == sockCode[c]
       IN  IF code = NoCode \/ ~Has(code) THEN Closed(c, sessions, {})
           ELSE IF sessions[code].atvSocketId = c
           THEN IF Len(sessions[code].players) > 0
                THEN Closed(c, Put(sessions, code,
                                   [sessions[code] EXCEPT !.atvSocketId = NoConn]),
                            {})
                ELSE Closed(c, Del(sessions, code), {Ev("session:ended", code)})
           ELSE Closed(c, Put(sessions, code, PhoneLeavesB(sessions[code], c)),
                       Snapshots(sessions, code))

----------------------------------------------------------------------------
(* The actions: one per socket event and server *)

AtvGetPlayersW(c, code) == variant = "W" /\ Takes(c, OnAtvGetPlayersW(c, code))
AtvGetPlayersB(c, code) == variant = "B" /\ Takes(c, OnAtvGetPlayersB(c, code))
PlayerJoinW(c, code, name) == variant = "W" /\ Takes(c, OnPlayerJoinW(c, code, name))
PlayerJoinB(c, code, name) == variant = "B" /\ Takes(c, OnPlayerJoinB(c, code, name))
PlayerRejoinW(c, code, name) == variant = "W" /\ Takes(c, OnPlayerRejoinW(c, code, name))
PlayerRejoinB(c, code, name) == variant = "B" /\ Takes(c, OnPlayerRejoinB(c, code, name))
ManagerSetSettingsW(c, p) == variant = "W" /\ Takes(c, OnManagerSetSettingsW(c, p))
ManagerSetSettingsB(c, p) == variant = "B" /\ Takes(c, OnManagerSetSettingsB(c, p))
ManagerStartGameW(c) == variant = "W" /\ Takes(c, OnManagerStartGameW(c))
ManagerStartGameB(c) == variant = "B" /\ Takes(c, OnManagerStartGameB(c))
ManagerNextRoundW(c) == variant = "W" /\ Takes(c, OnManagerNextRoundW(c))
ManagerNextRoundB(c) == variant = "B" /\ Takes(c, OnManagerNextRoundB(c))
SetterSubmitPhraseW(c, phrase, hint) == variant = "W" /\ Takes(c, OnSetterSubmitPhraseW(c, phrase, hint))
SetterSubmitPhraseB(c, phrase, hint) == variant = "B" /\ Takes(c, OnSetterSubmitPhraseB(c, phrase, hint))
PlayerGuessLetterW(c, letter) == variant = "W" /\ Takes(c, OnPlayerGuessLetterW(c, letter))
PlayerGuessLetterB(c, letter) == variant = "B" /\ Takes(c, OnPlayerGuessLetterB(c, letter))
PlayerSolveW(c, guess) == variant = "W" /\ Takes(c, OnPlayerSolveW(c, guess))
PlayerSolveB(c, guess) == variant = "B" /\ Takes(c, OnPlayerSolveB(c, guess))
DisconnectW(c) == variant = "W" /\ Takes(c, OnDisconnectW(c))
DisconnectB(c) == variant = "B" /\ Takes(c, OnDisconnectB(c))
PlayerRenameW(c, name) == variant = "W" /\ Takes(c, OnPlayerRenameW(c, name))
PlayerRenameB(c, name) == variant = "B" /\ Takes(c, OnPlayerRenameB(c, name))
SetterShowHintW(c) == variant = "W" /\ Takes(c, OnSetterShowHintW(c))
SetterShowHintB(c) == variant = "B" /\ Takes(c, OnSetterShowHintB(c))

AtvCreateSessionW(c) ==
    variant = "W" /\ \E code \in makeCode : Takes(c, OnAtvCreateSessionW(c, code))
AtvCreateSessionB(c) ==
    variant = "B" /\ \E code \in makeCode : Takes(c, OnAtvCreateSessionB(c, code))
ManagerEndGameW(c) ==
    /\ variant = "W"
    /\ \E newCode \in Codes \ DOMAIN Del(sessions, sockCode[c]) :
          Takes(c, OnManagerEndGameW(c, newCode))

----------------------------------------------------------------------------
(* The servers *)

InitCommon ==
    /\ sessions = <<>>
    /\ sockCode = [c \in Conns |-> NoCode]
    /\ open = [c \in Conns |-> TRUE]
    /\ now = 0
    /\ timers = <<>>

InitB == variant = "B" /\ InitCommon
InitW == variant = "W" /\ InitCommon
Init == InitB \/ InitW

NextB ==
    \/ \E c \in Hosts : AtvCreateSessionB(c)
    \/ \E c \in Hosts, code \in CodeInputs : AtvGetPlayersB(c, code)
    \/ \E c \in Phones, code \in CodeInputs, name \in NameInputsB :
          PlayerJoinB(c, code, name)
    \/ \E c \in Phones, code \in CodeInputs, name \in NameInputsB :
          PlayerRejoinB(c, code, name)
    \/ \E c \in Phones, name \in NameInputsB : PlayerRenameB(c, name)
    \/ \E c \in Phones, p \in SettingsInputsB : ManagerSetSettingsB(c, p)
    \/ \E c \in Phones : ManagerStartGameB(c)
    \/ \E c \in Phones : ManagerNextRoundB(c)
    \/ \E c \in Phones, phrase \in PhraseInputs, hint \in HintInputs :
          SetterSubmitPhraseB(c, phrase, hint)
    \/ \E c \in Phones : SetterShowHintB(c)
    \/ \E c \in Phones, letter \in LetterInputs : PlayerGuessLetterB(c, letter)
    \/ \E c \in Phones, guess \in GuessInputs : PlayerSolveB(c, guess)
    \/ \E c \in Conns : DisconnectB(c)

NextW ==
    \/ \E c \in Hosts : AtvCreateSessionW(c)
    \/ \E c \in Hosts, code \in CodeInputs : AtvGetPlayersW(c, code)
    \/ \E c \in Phones, code \in CodeInputs, name \in NameInputsW :
          PlayerJoinW(c, code, name)
    \/ \E c \in Phones, code \in CodeInputs, name \in NameInputsW :
          PlayerRejoinW(c, code, name)
    \/ \E c \in Phones, name \in NameInputsW : PlayerRenameW(c, name)
    \/ \E c \in Phones, p \in SettingsInputsW : ManagerSetSettingsW(c, p)
    \/ \E c \in Phones : ManagerStartGameW(c)
    \/ \E c \in Phones : ManagerNextRoundW(c)
    \/ \E c \in Phones : ManagerEndGameW(c)
    \/ \E c \in Phones, phrase \in PhraseInputs, hint \in HintInputs :
          SetterSubmitPhraseW(c, phrase, hint)
    \/ \E c \in Phones : SetterShowHintW(c)
    \/ \E c \in Phones, letter \in LetterInputs : PlayerGuessLetterW(c, letter)
    \/ \E c \in Phones, guess \in GuessInputs : PlayerSolveW(c, guess)
    \/ \E c \in Conns : DisconnectW(c)

Next == NextB \/ NextW

SpecB == InitB /\ [][NextB]_vars
SpecW == InitW /\ [][NextW]_vars
Spec == Init /\ [][Next]_vars

\* A full table: either server once the host has created the session and
\* MaxPlayers + 1 phones have joined it, so that a round has MaxPlayers
\* guessers who take turns.  Nobody joins later.
Table == 2 .. (MaxPlayers + 2)
ConnsT == Hosts \cup Table

Seated(s) ==
    [s EXCEPT
        !.players = [i \in 1 .. (MaxPlayers + 1) |-> Player(i + 1, "Al", i = 1)]]

InitT ==
    /\ variant \in {"B", "W"}
    /\ now = 0
    /\ timers = <<>>
    /\ \E code \in Codes :
          /\ sessions = Put(<<>>, code,
                            IF variant = "B" THEN Seated(createSessionB(1))
                            ELSE Seated(createSession(1)))
          /\ sockCode = [c \in ConnsT |-> code]
    /\ open = [c \in ConnsT |-> TRUE]

NextTW ==
    \/ \E c \in Table : ManagerStartGameW(c)
    \/ \E c \in Table : ManagerNextRoundW(c)
    \/ \E c \in Table, phrase \in PhraseInputs, hint \in HintInputs :
          SetterSubmitPhraseW(c, phrase, hint)
    \/ \E c \in Table : SetterShowHintW(c)
    \/ \E c \in Table, letter \in LetterInputs : PlayerGuessLetterW(c, letter)
    \/ \E c \in Table, guess \in GuessInputs : PlayerSolveW(c, guess)
    \/ \E c \in Table : DisconnectW(c)

NextTB ==
    \/ \E c \in Table : ManagerStartGameB(c)
    \/ \E c \in Table : ManagerNextRoundB(c)
    \/ \E c \in Table, phrase \in PhraseInputs, hint \in HintInputs :
          SetterSubmitPhraseB(c, phrase, hint)
    \/ \E c \in Table : SetterShowHintB(c)
    \/ \E c \in Table, letter \in LetterInputs : PlayerGuessLetterB(c, letter)
    \/ \E c \in Table, guess \in GuessInputs : PlayerSolveB(c, guess)
    \/ \E c \in Table : DisconnectB(c)

NextT == NextTB \/ NextTW

SpecT == InitT /\ [][NextT]_vars

\* Expiry: the wrong-limit server with a clock.  Time passes between events;
\* the instants that matter to a session created at 0 are the last one at
\* which it is still valid and the first one at which it has expired.
Instants == {0, CODE_TTL_MS, CODE_TTL_MS + 1}

Tick ==
    /\ \E later \in Instants : later > now /\ now' = later
    /\ UNCHANGED <<variant, sessions, sockCode, open, timers>>

NextTTL ==
    \/ Tick
    \/ \E c \in Hosts : AtvCreateSessionW(c)
    \/ \E c \in Hosts, code \in CodeInputs : AtvGetPlayersW(c, code)
    \/ \E c \in Phones, code \in CodeInputs, name \in NameInputsW :
          PlayerJoinW(c, code, name)
    \/ \E c \in Phones, code \in CodeInputs, name \in NameInputsW :
          PlayerRejoinW(c, code, name)
    \/ \E c \in Phones, p \in SettingsInputsW : ManagerSetSettingsW(c, p)
    \/ \E c \in Phones : ManagerStartGameW(c)
    \/ \E c \in Phones : ManagerNextRoundW(c)
    \/ \E c \in Phones, phrase \in PhraseInputs, hint \in HintInputs :
          SetterSubmitPhraseW(c, phrase, hint)
    \/ \E c \in Phones, letter \in LetterInputs : PlayerGuessLetterW(c, letter)
    \/ \E c \in Phones, guess \in GuessInputs : PlayerSolveW(c, guess)

SpecTTL == InitW /\ [][NextTTL]_vars

\* The lobby: the baseline server where makeCode has two codes to draw from,
\* the display creates sessions, phones join, and any connection, a phone
\* included, may send atv:getPlayers.  Only the events of presence are sent:
\* no game is started.
LobbyCodes == {"K7QP", "M3XT"}

\* a faulty makeCode that does not look the code up in the registry
StaleCode == LobbyCodes

\* makeCode over the two codes: the loop ends on a code that is not a key
makeCodeL == LobbyCodes \ DOMAIN sessions

AtvCreateSessionLB(c) ==
    /\ variant = "B"
    /\ \E code \in makeCodeL :
          Takes(c, OnAtvCreateSessionB(c, code))

NextL ==
    \/ \E c \in Hosts : AtvCreateSessionLB(c)
    \/ \E c \in Conns, code \in LobbyCodes : AtvGetPlayersB(c, code)
    \/ \E c \in Phones, code \in LobbyCodes, name \in NameInputsB :
          PlayerJoinB(c, code, name)
    \/ \E c \in Phones, code \in LobbyCodes, name \in NameInputsB :
          PlayerRejoinB(c, code, name)
    \/ \E c \in Conns : DisconnectB(c)

SpecL == InitB /\ [][NextL]_vars

\* The registry: the wrong-limit server with a clock and two codes, where
\* displays create sessions, look them up and leave, and phones join
AtvCreateSessionLW(c) ==
    /\ variant = "W"
    /\ \E code \in makeCodeL :
          Takes(c, OnAtvCreateSessionW(c, code))

NextK ==
    \/ Tick
    \/ \E c \in Conns : AtvCreateSessionLW(c)
    \/ \E c \in Conns, code \in LobbyCodes : AtvGetPlayersW(c, code)
    \/ \E c \in Phones, code \in LobbyCodes, name \in NameInputsW :
          PlayerJoinW(c, code, name)
    \/ \E c \in Conns : DisconnectW(c)

SpecK == InitW /\ [][NextK]_vars

\* The long table: the wrong-limit server with four phones seated, so that a
\* round has three guessers; the phones start a game, set a phrase, guess
\* letters and leave.
Quartet == 2 .. (MaxPlayers + 3)
ConnsQ == Hosts \cup Quartet

SeatedQ(s) ==
    [s EXCEPT !.players = [i \in 1 .. (MaxPlayers + 2) |-> Player(i + 1, "Al", i = 1)]]

InitQ ==
    /\ variant = "W"
    /\ now = 0
    /\ timers = <<>>
    /\ \E code \in Codes :
          /\ sessions = Put(<<>>, code, SeatedQ(createSession(1)))
          /\ sockCode = [c \in ConnsQ |-> code]
    /\ open = [c \in ConnsQ |-> TRUE]

NextQ ==
    \/ \E c \in Quartet : ManagerStartGameW(c)
    \/ \E c \in Quartet, phrase \in PhraseInputs, hint \in HintInputs :
          SetterSubmitPhraseW(c, phrase, hint)
    \/ \E c \in Quartet, letter \in LetterInputs : PlayerGuessLetterW(c, letter)
    \/ \E c \in Quartet : DisconnectW(c)

SpecQ == InitQ /\ [][NextQ]_vars

\* The settings desk: the wrong-limit server with two phones seated, where
\* the manager sends settings one field at a time, starts a game, and the
\* setter submits a phrase.
SettingsInputsS ==
    {[minLen |-> 1], [minLen |-> 5], [maxLen |-> 4], [maxLen |-> 60],
     [rounds |-> 1], [wrongLimit |-> 1],
     [unlimitedWrong |-> TRUE], [unlimitedWrong |-> FALSE]}

InitS ==
    /\ variant = "W"
    /\ now = 0
    /\ timers = <<>>
    /\ \E code \in Codes :
          /\ sessions = Put(<<>>, code,
                 [createSession(1) EXCEPT
                     !.players = <<Player(2, "Al", TRUE), Player(3, "Al", FALSE)>>])
          /\ sockCode = [c \in Conns |-> code]
    /\ open = [c \in Conns |-> TRUE]

NextS ==
    \/ \E c \in Phones, p \in SettingsInputsS : ManagerSetSettingsW(c, p)
    \/ \E c \in Phones : ManagerStartGameW(c)
    \/ \E c \in Phones, phrase \in PhraseInputs, hint \in HintInputs :
          SetterSubmitPhraseW(c, phrase, hint)

SpecS == InitS /\ [][NextS]_vars

\* Two rooms: the wrong-limit server with two sessions, each with its own
\* display and phones.  The phones of the first room play a whole game, the
\* second room starts one and may end it, phones and displays leave, and a phone of the first room may
\* join the second.
RoomOne == {2, 3}
RoomTwo == {MaxConn + 2}
ConnsI == Hosts \cup RoomOne \cup {MaxConn + 1} \cup RoomTwo

InitI ==
    /\ variant = "W"
    /\ now = 0
    /\ timers = <<>>
    /\ sessions = Put(Put(<<>>, "K7QP",
                          [createSession(1) EXCEPT
                              !.players = <<Player(2, "Al", TRUE),
                                            Player(3, "Al", FALSE)>>]),
                      "M3XT",
                      [createSession(MaxConn + 1) EXCEPT
                          !.players = <<Player(MaxConn + 2, "Al", TRUE)>>])
    /\ sockCode = [c \in ConnsI |-> IF c \in Hosts \cup RoomOne THEN "K7QP"
                                    ELSE "M3XT"]
    /\ open = [c \in ConnsI |-> TRUE]

ManagerEndGameLW(c) ==
    /\ variant = "W"
    /\ \E newCode \in LobbyCodes \ DOMAIN Del(sessions, sockCode[c]) :
          Takes(c, OnManagerEndGameW(c, newCode))

NextI ==
    \/ \E c \in RoomOne \cup RoomTwo : ManagerStartGameW(c)
    \/ \E c \in RoomOne : ManagerNextRoundW(c)
    \/ \E c \in RoomTwo : ManagerEndGameLW(c)
    \/ \E c \in RoomOne \cup RoomTwo, phrase \in PhraseInputs, hint \in HintInputs :
          SetterSubmitPhraseW(c, phrase, hint)
    \/ \E c \in RoomOne, letter \in LetterInputs : PlayerGuessLetterW(c, letter)
    \/ \E c \in RoomOne \ {2}, code \in LobbyCodes \ Codes, name \in NameInputsW :
          PlayerJoinW(c, code, name)
    \/ \E c \in ConnsI : DisconnectW(c)

SpecI == InitI /\ [][NextI]_vars

----------------------------------------------------------------------------
(* The auto-advance server (A).  A round that is won is followed, after a   *)
(* pause, by the next one: the handler that ends the round leaves a timer,  *)
(* and the timer's callback calls startNextRound on the session object the  *)
(* handler held.  A timer is [code, live, s]: while the session is in the   *)
(* registry the callback's object is sessions[code] (live); once the        *)
(* session is deleted the callback holds the only reference to the object,  *)
(* kept in s.                                                               *)

MaxTimers == 2

SettingsA == [rounds |-> 3, minLen |-> 3, maxLen |-> 24]

createSessionA(atvSocketId) ==
    [atvSocketId |-> atvSocketId, createdAt |-> now, players |-> <<>>,
     settings |-> SettingsA, game |-> NoGame]

newGame == [roundIndex |-> -1, setterIndex |-> -1, state |-> "idle", round |-> NoRound]

FreshRoundA(setterId, guessers) ==
    [setterId |-> setterId, hint |-> "", masked |-> <<>>, raw |-> <<>>,
     guessedLetters |-> <<>>, hintShown |-> FALSE, turnIndex |-> 0,
     guesserOrder |-> guessers, winnerId |-> NoConn]

\* the setter rotates among the players who are there when the round starts
NextSetter(s) ==
    LET setterIndex == (s.game.setterIndex + 1) % Len(s.players)
        setterId == At(s.players, setterIndex).id
    IN  [s EXCEPT !.game.setterIndex = setterIndex,
                  !.game.state = "waiting_phrase",
                  !.game.round = FreshRoundA(setterId, Without(Ids(s.players), setterId))]

startNextRound(session) ==
    LET g == IF HasGame(session) THEN session ELSE WithGame(session, newGame)
        t == [g EXCEPT !.game.roundIndex = @ + 1]
    IN  IF t.game.roundIndex >= t.settings.rounds
        THEN [t EXCEPT !.game.state = "over", !.game.round = NoRound]
        ELSE IF Len(t.players) = 0
        THEN [t EXCEPT !.game.state = "idle", !.game.round = NoRound]
        ELSE NextSetter(t)

buildMaskedA(raw, guessedSet) ==
    [i \in DOMAIN raw |->
        IF IsUpper(raw[i])
        THEN (IF raw[i] \in guessedSet THEN raw[i] ELSE "_")
        ELSE raw[i]]

\* norm.replace(/[^A-Z]/g, "")
onlyLetters(norm) == SelectSeq(norm, IsUpper)

\* setTimeout(() => { startNextRound(s); ... }): a callback on the object of code
Timer(code) == [code |-> code, live |-> TRUE, s |-> NoGame]

\* sessions.delete(code) leaves the object to the callbacks that hold it
Detached(tm, map) ==
    [i \in DOMAIN tm |->
        IF tm[i].live /\ tm[i].code \notin DOMAIN map
        THEN [tm[i] EXCEPT !.live = FALSE, !.s = sessions[tm[i].code]]
        ELSE tm[i]]

OutA(newSessions, newSockCode, newOpen, newTimers, ems) ==
    [sessions |-> newSessions, sockCode |-> newSockCode, open |-> newOpen,
     timers |-> Detached(newTimers, newSessions), emits |-> ems]

HandledA(c, newSessions, newCode, newTimers, ems) ==
    OutA(newSessions, [sockCode EXCEPT ![c] = newCode], open, newTimers, ems)

IgnoredA(c) == OutA(sessions, sockCode, open, timers, {})

ClosedA(c, newSessions, newTimers, ems) ==
    OutA(newSessions, [sockCode EXCEPT ![c] = NoCode],
         [open EXCEPT ![c] = FALSE], newTimers, ems)

InBoundsA(map) ==
    \A code \in DOMAIN map :
        /\ Len(map[code].players) <= MaxPlayers
        /\ \A i \in DOMAIN map[code].players : map[code].players[i].score <= MaxScore
        /\ map[code].game # NoGame => map[code].game.roundIndex <= MaxPointer

TakesA(c, o) ==
    /\ open[c]
    /\ InBoundsA(o.sessions)
    /\ Len(o.timers) <= MaxTimers
    /\ sessions' = o.sessions
    /\ sockCode' = o.sockCode
    /\ open' = o.open
    /\ timers' = o.timers
    /\ UNCHANGED <<variant, now>>

OnAtvCreateSessionA(c, code) ==
    HandledA(c, Put(sessions, code, createSessionA(c)), code, timers,
             {Ev("session:created", "self")}
                 \cup Snapshots(Put(sessions, code, createSessionA(c)), code))

OnAtvGetPlayersA(c, code) ==
    IF ~getSession(code)
    THEN HandledA(c, AfterGetSession(code), sockCode[c], timers,
                  {Ev("session:ended", "self")})
    ELSE HandledA(c, sessions, sockCode[c], timers, Snapshots(sessions, code))

OnPlayerJoinA(c, code, name) ==
    IF ~getSession(code)
    THEN HandledA(c, AfterGetSession(code), sockCode[c], timers,
                  {Ev("error:join", "self")})
    ELSE HandledA(c, Put(sessions, code, JoinPush(sessions[code], c, name)), code,
                  timers, {Ev("player:joined", "self")} \cup Snapshots(sessions, code))

OnManagerSetSettingsA(c, p) ==
    LET code == sockCode[c]
    IN  IF ~Has(code) THEN IgnoredA(c)
        ELSE IF ~MeIsManager(sessions[code], c) THEN IgnoredA(c)
        ELSE HandledA(c,
                 Put(sessions, code,
                     [sessions[code] EXCEPT !.settings = SetLengths(@, p)]),
                 code, timers, emitGameState(sessions, code))

OnManagerStartGameA(c) ==
    LET code == sockCode[c]
    IN  IF ~Has(code) THEN IgnoredA(c)
        ELSE IF ~MeIsManager(sessions[code], c) THEN IgnoredA(c)
        ELSE HandledA(c, Put(sessions, code, startNextRound(sessions[code])),
                      code, timers, Snapshots(sessions, code))

SubmitA(s, norm, hint) ==
    [s EXCEPT !.game.round.raw = norm,
              !.game.round.hint = hint,
              !.game.round.guessedLetters = <<>>,
              !.game.round.hintShown = FALSE,
              !.game.round.guesserOrder = Without(Ids(s.players), s.game.round.setterId),
              !.game.round.turnIndex = 0,
              !.game.round.masked = buildMaskedA(norm, {}),
              !.game.state = "active"]

OnSetterSubmitPhraseA(c, phrase, hint) ==
    LET code == sockCode[c]
        norm == normalizePhrase(phrase)
    IN  IF ~Has(code) THEN IgnoredA(c)
        ELSE IF ~IsSetter(sessions[code], c, "waiting_phrase") THEN IgnoredA(c)
        ELSE IF Falsy(norm)
        THEN HandledA(c, sessions, code, timers, {Ev("error:phrase", "self")})
        ELSE IF \/ Len(onlyLetters(norm)) < sessions[code].settings.minLen
                \/ Len(onlyLetters(norm)) > sessions[code].settings.maxLen
        THEN HandledA(c, sessions, code, timers, {Ev("error:phrase", "self")})
        ELSE HandledA(c, Put(sessions, code, SubmitA(sessions[code], norm, hint)),
                      code, timers, {Ev("setter:ok", "self"), Ev("game:state", code)})

OnSetterShowHintA(c) ==
    LET code == sockCode[c]
    IN  IF ~Has(code) THEN IgnoredA(c)
        ELSE IF ~IsSetter(sessions[code], c, "active") THEN IgnoredA(c)
        ELSE IF sessions[code].game.round.hintShown THEN IgnoredA(c)
        ELSE HandledA(c,
                 Put(sessions, code,
                     [sessions[code] EXCEPT !.game.round.hintShown = TRUE]),
                 code, timers, {Ev("game:hint", code), Ev("game:state", code)})

GuessLetterA(s, c, L) ==
    LET p == Pushed(s, L)
        t == [p EXCEPT !.game.round.masked =
                 buildMaskedA(p.game.round.raw, Range(p.game.round.guessedLetters))]
    IN  IF ~Includes(t.game.round.masked, "_")
        THEN GuesserWin(t, c)
        ELSE advanceTurn(t)

\* the timers after a handler that may have ended the round of code
Scheduled(t, code) ==
    IF t.game.state = "won" THEN Append(timers, Timer(code)) ELSE timers

OnPlayerGuessLetterA(c, letter) ==
    LET code == sockCode[c]
    IN  IF ~Has(code) THEN IgnoredA(c)
        ELSE IF ~MyTurn(sessions[code], c) THEN IgnoredA(c)
        ELSE IF ~LetterOk(sessions[code], letter) THEN IgnoredA(c)
        ELSE LET t == GuessLetterA(sessions[code], c, ToUpperCh(letter))
             IN  HandledA(c, Put(sessions, code, t), code, Scheduled(t, code),
                          {Ev("game:state", code)})

SolveA(s, c, normGuess) ==
    IF normGuess = s.game.round.raw THEN Solved(s, c) ELSE advanceTurn(s)

OnPlayerSolveA(c, guess) ==
    LET code == sockCode[c]
    IN  IF ~Has(code) THEN IgnoredA(c)
        ELSE IF ~MyTurn(sessions[code], c) THEN IgnoredA(c)
        ELSE IF Falsy(normalizePhrase(guess)) THEN IgnoredA(c)
        ELSE LET t == SolveA(sessions[code], c, normalizePhrase(guess))
             IN  HandledA(c, Put(sessions, code, t), code, Scheduled(t, code),
                          {Ev("game:state", code)})

PhoneLeavesA(s, c) ==
    LET idx == IdxOfId(s.players, c)
        t == RemovePlayer(s, idx)
    IN  IF idx = 0 THEN s
        ELSE IF ~HasRound(t) THEN t
        ELSE IF NoGuesserLeft(DropGuesser(t, c))
        THEN [DropGuesser(t, c) EXCEPT !.game.state = "won",
                                       !.game.round.winnerId = NoConn]
        ELSE DropGuesser(t, c)

OnDisconnectA(c) ==
    LET code == sockCode[c]
    IN  IF code = NoCode \/ ~Has(code) THEN ClosedA(c, sessions, timers, {})
        ELSE IF sessions[code].atvSocketId = c
        THEN ClosedA(c, Del(sessions, code), timers, {Ev("session:ended", code)})
        ELSE LET t == PhoneLeavesA(sessions[code], c)
             IN  ClosedA(c, Put(sessions, code, t),
                         IF t.game # sessions[code].game /\ HasGame(t)
                               /\ t.game.state = "won"
                               /\ sessions[code].game.state = "active"
                         THEN Append(timers, Timer(code)) ELSE timers,
                         Snapshots(sessions, code))

\* the callback of timer i: startNextRound(s); emitSessionPlayers(code);
\* emitGameState(code).  `s` is the object after the call.
OnTimer(i) ==
    LET t == timers[i]
        rest == RemoveAt(timers, i)
    IN  IF t.live
        THEN [sessions |-> Put(sessions, t.code, startNextRound(sessions[t.code])),
              timers |-> rest, s |-> startNextRound(sessions[t.code]),
              emits |-> Snapshots(sessions, t.code)]
        ELSE [sessions |-> sessions, timers |-> rest, s |-> startNextRound(t.s),
              emits |-> Snapshots(sessions, t.code)]

AtvCreateSessionA(c) ==
    /\ variant = "A"
    /\ \E code \in makeCode : TakesA(c, OnAtvCreateSessionA(c, code))
AtvGetPlayersA(c, code) == variant = "A" /\ TakesA(c, OnAtvGetPlayersA(c, code))
PlayerJoinA(c, code, name) == variant = "A" /\ TakesA(c, OnPlayerJoinA(c, code, name))
ManagerSetSettingsA(c, p) == variant = "A" /\ TakesA(c, OnManagerSetSettingsA(c, p))
ManagerStartGameA(c) == variant = "A" /\ TakesA(c, OnManagerStartGameA(c))
SetterSubmitPhraseA(c, phrase, hint) == variant = "A" /\ TakesA(c, OnSetterSubmitPhraseA(c, phrase, hint))
SetterShowHintA(c) == variant = "A" /\ TakesA(c, OnSetterShowHintA(c))
PlayerGuessLetterA(c, letter) == variant = "A" /\ TakesA(c, OnPlayerGuessLetterA(c, letter))
PlayerSolveA(c, guess) == variant = "A" /\ TakesA(c, OnPlayerSolveA(c, guess))
DisconnectA(c) == variant = "A" /\ TakesA(c, OnDisconnectA(c))

TimerFires(i) ==
    /\ variant = "A"
    /\ i \in DOMAIN timers
    /\ InBoundsA(OnTimer(i).sessions)
    /\ sessions' = OnTimer(i).sessions
    /\ timers' = OnTimer(i).timers
    /\ UNCHANGED <<variant, sockCode, open, now>>

SettingsInputsA == {[rounds |-> 1]}

InitA == variant = "A" /\ InitCommon

NextA ==
    \/ \E c \in Hosts : AtvCreateSessionA(c)
    \/ \E c \in Hosts, code \in CodeInputs : AtvGetPlayersA(c, code)
    \/ \E c \in Phones, code \in CodeInputs, name \in NameInputsW :
          PlayerJoinA(c, code, name)
    \/ \E c \in Phones, p \in SettingsInputsA : ManagerSetSettingsA(c, p)
    \/ \E c \in Phones : ManagerStartGameA(c)
    \/ \E c \in Phones, phrase \in PhraseInputs, hint \in HintInputs :
          SetterSubmitPhraseA(c, phrase, hint)
    \/ \E c \in Phones : SetterShowHintA(c)
    \/ \E c \in Phones, letter \in LetterInputs : PlayerGuessLetterA(c, letter)
    \/ \E c \in Phones, guess \in GuessInputs : PlayerSolveA(c, guess)
    \/ \E c \in Conns : DisconnectA(c)
    \/ \E i \in 1 .. MaxTimers : TimerFires(i)

SpecA == InitA /\ [][NextA]_vars

\* The full house: the baseline server with a session that PlayerCap phones
\* have joined.  Two of them may leave, and two late connections ask to join
\* and to rejoin under a name of the house or a new one.
Crowd == 2 .. (PlayerCap + 1)
Leavers == {2, 3}
Late == {PlayerCap + 2, PlayerCap + 3}
ConnsF == Hosts \cup Crowd \cup Late
NameInputsF == {"Al", "Bo"}

FullHouse(s) ==
    [s EXCEPT !.players = [i \in 1 .. PlayerCap |-> Player(i + 1, "Al", i = 1)]]

InitF ==
    /\ variant = "B"
    /\ now = 0
    /\ timers = <<>>
    /\ \E code \in Codes :
          /\ sessions = Put(<<>>, code, FullHouse(createSessionB(1)))
          /\ sockCode = [c \in ConnsF |-> IF c \in Late THEN NoCode ELSE code]
    /\ open = [c \in ConnsF |-> TRUE]

NextF ==
    \/ \E c \in Late, code \in Codes, name \in NameInputsF :
          PlayerJoinB(c, code, name)
    \/ \E c \in Late, code \in Codes, name \in NameInputsF :
          PlayerRejoinB(c, code, name)
    \/ \E c \in Leavers \cup Late : DisconnectB(c)

SpecF == InitF /\ [][NextF]_vars

\* Masking: a full table in an active round whose phrase is any of the
\* canonical phrases below, where the guessers send letters and the server
\* masks the phrase with the letters guessed so far
MaskPhraseInputs ==
    { <<"A","B","A">>, <<"A"," ","B">>, <<"A","-","B",".">>,
      <<"A","'","B","C">>, <<"B","B","B">>, <<"A","B","C","D">>,
      <<"C","2","D">> }
MaskLetterInputs == {"A", "B", "c", "D", "E", "-"}

\* normalizePhrase leaves a canonical phrase as it is
Canonical(phrase) ==
    IF variant = "B" THEN normalizePhraseB(phrase) = phrase
    ELSE normalizePhrase(phrase) = phrase

\* the session after createSession, the joins, startGame and submitPhrase
Playing(phrase) ==
    IF variant = "B"
    THEN SubmitB(StartGameB(Seated(createSessionB(1))), phrase, "h")
    ELSE SubmitW(StartGameW(Seated(createSession(1))), phrase, "h")

InitMask ==
    /\ variant \in {"B", "W"}
    /\ now = 0
    /\ timers = <<>>
    /\ \E code \in Codes, phrase \in MaskPhraseInputs :
          /\ Canonical(phrase)
          /\ sessions = Put(<<>>, code, Playing(phrase))
          /\ sockCode = [c \in ConnsT |-> code]
    /\ open = [c \in ConnsT |-> TRUE]

NextMask ==
    \/ \E c \in Table, letter \in MaskLetterInputs : PlayerGuessLetterB(c, letter)
    \/ \E c \in Table, letter \in MaskLetterInputs : PlayerGuessLetterW(c, letter)

SpecMask == InitMask /\ [][NextMask]_vars

----------------------------------------------------------------------------
(* Properties.  A property of what a handler does is stated on its outcome *)
(* in every reachable state; a property of how the state may move is an    *)
(* action property.                                                        *)

\* the handlers of the server this behaviour runs
OnDisconnect(c) ==
    IF variant = "B" THEN OnDisconnectB(c) ELSE OnDisconnectW(c)
OnManagerNextRound(c) ==
    IF variant = "B" THEN OnManagerNextRoundB(c) ELSE OnManagerNextRoundW(c)
OnPlayerGuessLetter(c, letter) ==
    IF variant = "B" THEN OnPlayerGuessLetterB(c, letter)
    ELSE OnPlayerGuessLetterW(c, letter)
OnPlayerSolve(c, guess) ==
    IF variant = "B" THEN OnPlayerSolveB(c, guess) ELSE OnPlayerSolveW(c, guess)

\* connection c is open and attached to a session of the registry
Attached(c) == open[c] /\ sockCode[c] \in DOMAIN sessions
SessionOf(c) == sessions[sockCode[c]]

\* the position of the first player with this id (there is one)
FirstWithId(players, id) ==
    CHOOSE i \in DOMAIN players :
        players[i].id = id /\ \A j \in 1 .. (i - 1) : players[j].id # id

IsPlayer(s, c) == \E i \in DOMAIN s.players : s.players[i].id = c

HoldsManagerRole(s, c) ==
    \E i \in DOMAIN s.players : s.players[i].id = c /\ s.players[i].isManager

Managers(s) == {i \in DOMAIN s.players : s.players[i].isManager}

Started(s) == s.game # NoGame /\ s.game.state # "idle"

InState(s, states) == s.game # NoGame /\ s.game.state \in states

\* c is the guesser whose turn it is: guesserOrder[turnIndex % length]
OnTurn(c) ==
    /\ Attached(c)
    /\ InState(SessionOf(c), {"active"})
    /\ SessionOf(c).game.round.guesserOrder # <<>>
    /\ LET r == SessionOf(c).game.round
       IN  r.guesserOrder[(r.turnIndex % Len(r.guesserOrder)) + 1] = c

\* a handler that changed nothing and sent nothing
Silent(o) ==
    /\ o.sessions = sessions /\ o.sockCode = sockCode /\ o.open = open
    /\ o.emits = {}

\* C1: whenever the players list of a session is non-empty, exactly one of
\* its players has isManager = true
ExactlyOneManager ==
    \A code \in DOMAIN sessions :
        Len(sessions[code].players) > 0 =>
            Cardinality(Managers(sessions[code])) = 1

\* the phone of the manager is about to leave, and another player stays
ManagerLeaves(c) ==
    /\ Attached(c)
    /\ SessionOf(c).atvSocketId # c
    /\ IsPlayer(SessionOf(c), c)
    /\ SessionOf(c).players[FirstWithId(SessionOf(c).players, c)].isManager
    /\ Len(SessionOf(c).players) >= 2

SettingsFrozen ==
    \A c \in Conns, p \in SettingsInputsB :
        (Attached(c)
            /\ (~HoldsManagerRole(SessionOf(c), c) \/ Started(SessionOf(c)))) =>
            OnManagerSetSettingsB(c, p).sessions = sessions

\* the settings of a session move only while its game is idle and its
\* manager is connected
SettingsMoveOnlyIdle ==
    [][\A code \in (DOMAIN sessions) \cap (DOMAIN sessions') :
          sessions'[code].settings # sessions[code].settings =>
              /\ ~Started(sessions[code])
              /\ \E c \in Conns :
                    /\ open[c] /\ sockCode[c] = code
                    /\ HoldsManagerRole(sessions[code], c)]_vars

\* C3: the settings change only through the manager's setSettings while the
\* game is idle; a setSettings from a non-manager, or once the game state is
\* not idle, leaves every settings field unchanged
SettingsOnlyByManagerWhileIdle == []SettingsFrozen /\ SettingsMoveOnlyIdle

\* C3's case: a started game whose manager is connected, with settings that
\* were changed before the start
LockedSettingsAfterStart ==
    \E c \in Conns :
        /\ Attached(c)
        /\ HoldsManagerRole(SessionOf(c), c)
        /\ Started(SessionOf(c))
        /\ SessionOf(c).settings.rounds = 1

\* the state is over exactly when the pointer is at the end of the order
OverAtEnd(s) ==
    s.game # NoGame =>
        (s.game.state = "over" <=> s.game.setterPointer >= Len(s.game.setterOrder))

\* C4 as claimed: once a game is started its setterPointer never decreases,
\* the state is over exactly when the pointer has reached setterOrder.length,
\* and a game that is over stays over
SetterPointerNeverDecreases ==
    [][\A code \in (DOMAIN sessions) \cap (DOMAIN sessions') :
          LET s == sessions[code]
              t == sessions'[code]
          IN  /\ OverAtEnd(t)
              /\ s.game # NoGame =>
                    /\ t.game # NoGame
                    /\ t.game.setterPointer >= s.game.setterPointer
                    /\ s.game.state = "over" => t.game.state = "over"]_vars

\* startGame, obeyed in the session s and leaving it as t
Restarted(code, s, t) ==
    /\ t.game.setterPointer = 0
    /\ t.game.state = "waiting_phrase"
    /\ t.game.setterOrder = Repeat(Ids(s.players), s.settings.rounds)
    /\ t.game.round.setterId = t.game.setterOrder[1]
    /\ t.players = s.players
    /\ \E c \in Conns :
          open[c] /\ sockCode[c] = code /\ HoldsManagerRole(s, c)

\* C4 as the code has it: setterPointer decreases only when a startGame of
\* the manager, which is obeyed in every state of the game, resets it to 0;
\* the state is over exactly when setterPointer >= setterOrder.length; and a
\* game that is over leaves that state only through such a startGame
SetterPointerResetOnlyByStart ==
    [][\A code \in (DOMAIN sessions) \cap (DOMAIN sessions') :
          LET s == sessions[code]
              t == sessions'[code]
          IN  /\ OverAtEnd(t)
              /\ s.game # NoGame =>
                    /\ t.game # NoGame
                    /\ t.game.setterPointer < s.game.setterPointer =>
                          Restarted(code, s, t)
                    /\ (s.game.state = "over" /\ t.game.state # "over") =>
                          Restarted(code, s, t)]_vars

\* C4's case: a game restarted after a round was won: the first round is
\* waiting for its phrase again and a score has been made
GameRestarted ==
    \E code \in DOMAIN sessions :
        LET s == sessions[code]
        IN  /\ InState(s, {"waiting_phrase"})
            /\ s.game.setterPointer = 0
            /\ \E i \in DOMAIN s.players : s.players[i].score > 0

\* C5: a nextRound from the manager while the game is waiting for a phrase,
\* active or over leaves setterPointer, the state and the round unchanged
NextRoundOnlyAfterWin ==
    \A c \in Conns :
        (Attached(c)
            /\ HoldsManagerRole(SessionOf(c), c)
            /\ InState(SessionOf(c), {"waiting_phrase", "active", "over"})) =>
            LET o == OnManagerNextRound(c)
            IN  o.sessions[sockCode[c]].game = SessionOf(c).game

\* the players list with pts added to the first player with this id, if any
WithPoints(players, id, pts) ==
    IF \E i \in DOMAIN players : players[i].id = id
    THEN [players EXCEPT ![FirstWithId(players, id)].score = @ + pts]
    ELSE players

\* who is in the list, and with what score
Scores(players) ==
    [i \in DOMAIN players |-> [id |-> players[i].id, score |-> players[i].score]]

\* the round r of the session t ended as a win of its setter
SetterWon(r, t) ==
    /\ t.game.state = "won"
    /\ t.game.round.winnerId = r.setterId
    /\ t.game.round.masked = r.raw

\* ... and then it paid the setter, among the players `before`, pts points
SetterPaid(before, r, t, pts) ==
    SetterWon(r, t) =>
        Scores(t.players) = Scores(WithPoints(before, r.setterId, pts))

\* every way an active round of W can end as a win of the setter (a wrong
\* letter, a wrong solve, the last guesser leaving) pays Award(hintShown)
ForfeitPays(Award(_)) ==
    \A c \in Conns :
        (Attached(c) /\ InState(SessionOf(c), {"active"})) =>
            LET code == sockCode[c]
                s == sessions[code]
                r == s.game.round
            IN  /\ \A letter \in LetterInputs :
                      SetterPaid(s.players, r,
                                 OnPlayerGuessLetterW(c, letter).sessions[code],
                                 Award(r.hintShown))
                /\ \A guess \in GuessInputs :
                      SetterPaid(s.players, r,
                                 OnPlayerSolveW(c, guess).sessions[code],
                                 Award(r.hintShown))
                /\ (IsPlayer(s, c) /\ s.atvSocketId # c) =>
                      SetterPaid(RemoveAt(s.players, FirstWithId(s.players, c)), r,
                                 OnDisconnectW(c).sessions[code],
                                 Award(r.hintShown))

ClaimedAward(hintShown) == IF hintShown THEN 1 ELSE 2
CodedAward(hintShown) == IF hintShown THEN 2 ELSE 1

\* C6 as claimed: a round that resolves as a setter win adds 2 to the
\* setter's score if the hint was never shown and 1 if it was
SetterForfeitPaysLikeSolver == ForfeitPays(ClaimedAward)

\* C6 as the code has it: a round that resolves as a setter win adds 1 to the
\* score of the setter if the hint was never shown and 2 if it was (the
\* reverse of a guesser's award), when the setter is still a player; no other
\* score changes
SetterForfeitPaysReversed == ForfeitPays(CodedAward)

\* C6's case: a round forfeited to its setter after the hint was shown, in a
\* game where that made the setter's score 2
SetterForfeitWithHint ==
    \E code \in DOMAIN sessions :
        LET s == sessions[code]
        IN  /\ InState(s, {"won"})
            /\ s.game.round.winnerId = s.game.round.setterId
            /\ s.game.round.hintShown
            /\ \E i \in DOMAIN s.players :
                  s.players[i].id = s.game.round.setterId /\ s.players[i].score = 2

\* the letter L, new to the round r, occurs in the phrase and is its last
\* hidden letter
RevealsLast(r, L) ==
    /\ IsUpper(L)
    /\ ~Includes(r.guessedLetters, L)
    /\ Includes(r.raw, L)
    /\ \A i \in DOMAIN r.raw :
          IsLetter(r.raw[i]) => r.raw[i] \in Range(r.guessedLetters) \cup {L}

\* the guess, as the server reads it, is the phrase of the round r
Matches(r, guess) ==
    r.raw = (IF variant = "B" THEN normalizePhraseB(guess)
             ELSE normalizePhrase(guess))

\* the guesser c won the round of s, leaving t
GuesserWon(s, t, c) ==
    /\ t.game.state = "won"
    /\ t.game.round.winnerId = c
    /\ \E i \in DOMAIN s.players :
          /\ s.players[i].id = c
          /\ t.players =
                [s.players EXCEPT ![i].score =
                    @ + (IF s.game.round.hintShown THEN 1 ELSE 2)]

\* C7: when the guesser whose turn it is reveals the last hidden letter or
\* solves the phrase, the state becomes won with that guesser as winnerId,
\* that guesser's score grows by 2 without the hint and by 1 with it, and
\* no other score changes
GuesserWinPaysWinner ==
    \A c \in Conns :
        OnTurn(c) =>
            LET code == sockCode[c]
                s == sessions[code]
            IN  /\ \A letter \in LetterInputs :
                      RevealsLast(s.game.round, ToUpperCh(letter)) =>
                          GuesserWon(s, OnPlayerGuessLetter(c, letter).sessions[code], c)
                /\ \A guess \in GuessInputs :
                      Matches(s.game.round, guess) =>
                          GuesserWon(s, OnPlayerSolve(c, guess).sessions[code], c)

\* the turn passed to the next guesser of the round, which stays active
TurnAdvanced(s, t) ==
    /\ t.game.state = "active"
    /\ t.game.round.turnIndex =
          (s.game.round.turnIndex + 1) % Len(s.game.round.guesserOrder)
    /\ t.game.round.guesserOrder = s.game.round.guesserOrder
    /\ t.players = s.players

\* a wrong guess was counted in s, leaving t: one more wrong guess, and the
\* round forfeited to the setter exactly when the limit applies and is
\* reached, else the turn passed on
WrongCounted(s, t) ==
    /\ t.game.round.wrongCount = s.game.round.wrongCount + 1
    /\ IF ~s.settings.unlimitedWrong
          /\ t.game.round.wrongCount >= s.settings.wrongLimit
       THEN SetterWon(s.game.round, t)
       ELSE TurnAdvanced(s, t)

\* C8 as claimed: every letter guess of the guesser on turn that does not
\* occur in the phrase, and every solve attempt that does not match it, adds
\* exactly 1 to wrongCount; the round is forfeited to the setter exactly when
\* the limit is reached, and otherwise (always, with unlimitedWrong) the turn
\* advances
EveryWrongGuessCounts ==
    \A c \in Conns :
        OnTurn(c) =>
            LET code == sockCode[c]
                s == sessions[code]
            IN  /\ \A letter \in LetterInputs :
                      (IsLetter(letter)
                          /\ ~Includes(s.game.round.raw, ToUpperCh(letter))) =>
                          WrongCounted(s, OnPlayerGuessLetterW(c, letter).sessions[code])
                /\ \A guess \in GuessInputs :
                      normalizePhrase(guess) # s.game.round.raw =>
                          WrongCounted(s, OnPlayerSolveW(c, guess).sessions[code])

\* C8 as the code has it: a wrong guess counts only when the server accepts
\* it: a single letter A-Z not guessed before in the round and not in the
\* phrase, or a solve attempt that normalizes to a non-empty text other than
\* the phrase.  Then wrongCount grows by exactly 1, the round is forfeited to
\* the setter (state won, winnerId = setterId, masked = raw) exactly when
\* unlimitedWrong is false and wrongCount >= wrongLimit, and otherwise the
\* turn advances.  A letter guessed before, a character that is no letter and
\* a solve attempt that normalizes to nothing change nothing.
AcceptedWrongGuessCounts ==
    \A c \in Conns :
        OnTurn(c) =>
            LET code == sockCode[c]
                s == sessions[code]
                r == s.game.round
            IN  /\ \A letter \in LetterInputs :
                      LET o == OnPlayerGuessLetterW(c, letter)
                          L == ToUpperCh(letter)
                      IN  /\ (IsLetter(letter) /\ ~Includes(r.guessedLetters, L)
                                 /\ ~Includes(r.raw, L)) =>
                                 WrongCounted(s, o.sessions[code])
                          /\ (~IsLetter(letter) \/ Includes(r.guessedLetters, L)) =>
                                 Silent(o)
                /\ \A guess \in GuessInputs :
                      LET o == OnPlayerSolveW(c, guess)
                          g == normalizePhrase(guess)
                      IN  /\ (g # Null /\ g # <<>> /\ g # r.raw) =>
                                 WrongCounted(s, o.sessions[code])
                          /\ (g = Null \/ g = <<>>) => Silent(o)

\* C8's case: a round forfeited because its wrong guesses reached the limit
ForfeitAtLimit ==
    \E code \in DOMAIN sessions :
        LET s == sessions[code]
        IN  /\ InState(s, {"won"})
            /\ s.game.round.winnerId = s.game.round.setterId
            /\ ~s.settings.unlimitedWrong
            /\ s.game.round.wrongCount = s.settings.wrongLimit
            /\ s.game.round.guesserOrder # <<>>

\* C9: for every phrase submitPhrase accepts, a solve attempt of the guesser
\* on turn with the very text the setter submitted wins the round for that
\* guesser, with masked = raw
SolveWithSubmittedText ==
    \A c \in Conns, phrase \in PhraseInputs :
        (Attached(c)
            /\ InState(SessionOf(c), {"waiting_phrase"})
            /\ Ev("setter:ok", "self") \in
                  OnSetterSubmitPhraseW(c, phrase, "h").emits) =>
            LET t == OnSetterSubmitPhraseW(c, phrase, "h").sessions[sockCode[c]]
                g == currentTurnPlayerId(t)
                u == SolveW(t, g, normalizePhrase(phrase))
            IN  g # NoConn =>
                    /\ ~Falsy(normalizePhrase(phrase))
                    /\ u.game.state = "won"
                    /\ u.game.round.winnerId = g
                    /\ u.game.round.masked = t.game.round.raw

\* c is the setter of the current round
IsSetterOfRound(c) ==
    /\ Attached(c)
    /\ SessionOf(c).game # NoGame
    /\ SessionOf(c).game.round # NoRound
    /\ SessionOf(c).game.round.setterId = c

\* C10: an unauthorized event changes nothing and sends nothing, an error
\* event included: setSettings, startGame or nextRound from a connection that
\* is not the manager; submitPhrase or showHint from one that is not the
\* setter of the round; guessLetter or solve from one that is not
\* guesserOrder[turnIndex % length], or while the state is not active
UnauthorizedIgnored ==
    \A c \in Conns :
        /\ ~(Attached(c) /\ HoldsManagerRole(SessionOf(c), c)) =>
              /\ \A p \in SettingsInputsW : Silent(OnManagerSetSettingsW(c, p))
              /\ Silent(OnManagerStartGameW(c))
              /\ Silent(OnManagerNextRoundW(c))
        /\ ~IsSetterOfRound(c) =>
              /\ \A phrase \in PhraseInputs, hint \in HintInputs :
                    Silent(OnSetterSubmitPhraseW(c, phrase, hint))
              /\ Silent(OnSetterShowHintW(c))
        /\ ~OnTurn(c) =>
              /\ \A letter \in LetterInputs : Silent(OnPlayerGuessLetterW(c, letter))
              /\ \A guess \in GuessInputs : Silent(OnPlayerSolveW(c, guess))

\* C10's case: an active round with a connected player who is neither the
\* manager, nor the setter, and a connected player who is not on turn
BystandersInActiveRound ==
    \E c, d \in Conns :
        /\ Attached(c) /\ Attached(d) /\ sockCode[c] = sockCode[d]
        /\ InState(SessionOf(c), {"active"})
        /\ IsPlayer(SessionOf(c), c) /\ IsPlayer(SessionOf(c), d)
        /\ ~HoldsManagerRole(SessionOf(c), c)
        /\ ~IsSetterOfRound(c)
        /\ ~OnTurn(d)

----------------------------------------------------------------------------
(* Letter guesses the server refuses *)

\* the letter is not worth a guess in session s: it is not one letter of A-Z
\* once upper-cased, or the round has it among its guessed letters
Refused(s, letter) ==
    \/ ~IsLetter(letter)
    \/ \E i \in DOMAIN s.game.round.guessedLetters :
          s.game.round.guessedLetters[i] = ToUpperCh(letter)

\* C11: a guessLetter of the guesser on turn whose letter is not a single
\* letter of A-Z, or is already in guessedLetters, is ignored: guessedLetters,
\* masked, wrongCount, turnIndex, the state and the scores stay as they are,
\* the same guesser holds the turn, and nothing is sent
RefusedLetterIgnored ==
    \A c \in Conns, letter \in LetterInputs :
        (OnTurn(c) /\ Refused(SessionOf(c), letter)) =>
            Silent(OnPlayerGuessLetter(c, letter))

\* C11's case: the guesser on turn is connected in a round that has guessed
\* letters, so that a repeated letter and a non-letter can both be sent
GuesserCanRepeatLetter ==
    \E c \in Conns, letter \in LetterInputs :
        /\ OnTurn(c)
        /\ IsLetter(letter)
        /\ Refused(SessionOf(c), letter)

----------------------------------------------------------------------------
(* Turn rotation, at a full table *)

\* connection c is on turn in session s
HoldsTurn(s, c) ==
    /\ s.game.round.guesserOrder # <<>>
    /\ At(s.game.round.guesserOrder,
          s.game.round.turnIndex % Len(s.game.round.guesserOrder)) = c

\* after a guess of c, who was on turn at position i of guesserOrder in s, the
\* turn is with the guesser at the next position of the cycle
PassedOn(s, t, c) ==
    LET order == s.game.round.guesserOrder
        i == s.game.round.turnIndex % Len(order)
    IN  /\ At(order, i) = c
        /\ t.game.round.guesserOrder = order
        /\ t.game.round.turnIndex = (s.game.round.turnIndex + 1) % Len(order)
        /\ HoldsTurn(t, At(order, (i + 1) % Len(order)))

\* the outcome of a guess for the session of c, when the round is not resolved
Unresolved(c, o) == o.sessions[sockCode[c]].game.state = "active"

\* C12 as claimed: after every letter guess or solve attempt of the guesser on
\* turn that does not resolve the round, turnIndex is (turnIndex + 1) mod
\* guesserOrder.length
EveryGuessPassesTurn ==
    \A c \in DOMAIN open :
        OnTurn(c) =>
            /\ \A letter \in LetterInputs :
                  Unresolved(c, OnPlayerGuessLetter(c, letter)) =>
                      PassedOn(SessionOf(c),
                               OnPlayerGuessLetter(c, letter).sessions[sockCode[c]], c)
            /\ \A guess \in GuessInputs :
                  Unresolved(c, OnPlayerSolve(c, guess)) =>
                      PassedOn(SessionOf(c),
                               OnPlayerSolve(c, guess).sessions[sockCode[c]], c)

\* the guesses the server accepts from the guesser on turn
AcceptedLetter(s, letter) == ~Refused(s, letter)
Normalized(guess) ==
    IF variant = "B" THEN normalizePhraseB(guess) ELSE normalizePhrase(guess)
AcceptedSolve(guess) == Normalized(guess) # Null /\ Normalized(guess) # <<>>

\* what every guess of the guesser on turn does to the turn
GuessesPassTurn ==
    \A c \in DOMAIN open :
        OnTurn(c) =>
            /\ \A letter \in LetterInputs :
                  LET o == OnPlayerGuessLetter(c, letter)
                  IN  IF AcceptedLetter(SessionOf(c), letter)
                      THEN Unresolved(c, o) =>
                              PassedOn(SessionOf(c), o.sessions[sockCode[c]], c)
                      ELSE Silent(o)
            /\ \A guess \in GuessInputs :
                  LET o == OnPlayerSolve(c, guess)
                  IN  IF AcceptedSolve(guess)
                      THEN Unresolved(c, o) =>
                              PassedOn(SessionOf(c), o.sessions[sockCode[c]], c)
                      ELSE Silent(o)

\* while a round is active and guesserOrder stays as it is, a step leaves the
\* turn where it is or passes it to the next position of the cycle
TurnMovesInCycle ==
    \A code \in DOMAIN sessions :
        (/\ code \in DOMAIN sessions'
         /\ InState(sessions[code], {"active"})
         /\ InState(sessions'[code], {"active"})
         /\ sessions'[code].game.round.guesserOrder =
               sessions[code].game.round.guesserOrder
         /\ sessions[code].game.round.guesserOrder # <<>>) =>
            LET r == sessions[code].game.round
            IN  sessions'[code].game.round.turnIndex \in
                   {r.turnIndex, (r.turnIndex + 1) % Len(r.guesserOrder)}

\* C12: after a letter guess or solve attempt that the server accepts from the
\* guesser on turn and that does not resolve the round, turnIndex is
\* (turnIndex + 1) mod guesserOrder.length and the turn is with the next
\* guesser of the cycle; a guess the server refuses leaves the turn with the
\* same guesser; with guesserOrder unchanged the turn never moves otherwise
AcceptedGuessPassesTurn == [](GuessesPassTurn) /\ [][TurnMovesInCycle]_vars

\* C12's case: MaxPlayers guessers, and the turn is back at the first of them
\* after two accepted guesses that left the round open
TurnCameRound ==
    \E code \in DOMAIN sessions :
        /\ InState(sessions[code], {"active"})
        /\ LET r == sessions[code].game.round
           IN  /\ Len(r.guesserOrder) >= 2
               /\ r.guesserOrder[1] # r.guesserOrder[2]
               /\ r.turnIndex = 0
               /\ r.wrongCount + Len(r.guessedLetters) >= 2

----------------------------------------------------------------------------
(* The round a phrase opens *)

OnSetterSubmitPhrase(c, phrase, hint) ==
    IF variant = "B" THEN OnSetterSubmitPhraseB(c, phrase, hint)
    ELSE OnSetterSubmitPhraseW(c, phrase, hint)

\* sub is seq with every x left out: the same elements but x, as often and
\* in the same order
IsFiltered(sub, seq, x) ==
    \E keep \in [DOMAIN sub -> DOMAIN seq] :
        /\ \A i, j \in DOMAIN sub : i < j => keep[i] < keep[j]
        /\ \A i \in DOMAIN sub : sub[i] = seq[keep[i]]
        /\ \A k \in DOMAIN seq :
              (seq[k] # x) <=> (\E i \in DOMAIN sub : keep[i] = k)

\* the server answered the phrase with setter:ok
Accepted(o) == Ev("setter:ok", "self") \in o.emits

\* the round of t is the one an accepted phrase opens
FreshlyOpened(t) ==
    /\ t.game.state = "active"
    /\ IsFiltered(t.game.round.guesserOrder, Ids(t.players), t.game.round.setterId)
    /\ t.game.round.turnIndex = 0
    /\ t.game.round.guessedLetters = <<>>
    /\ ~t.game.round.hintShown

\* C13: when submitPhrase succeeds, guesserOrder is the list of the ids of
\* the current players in join order with the setter left out, turnIndex is
\* 0, guessedLetters is empty, hintShown is false and the state is active;
\* and the id of the setter of a round is never in its guesserOrder
SubmitOpensRound ==
    /\ \A c \in DOMAIN open, phrase \in PhraseInputs, hint \in HintInputs :
          (Attached(c) /\ Accepted(OnSetterSubmitPhrase(c, phrase, hint))) =>
              LET t == OnSetterSubmitPhrase(c, phrase, hint).sessions[sockCode[c]]
              IN  /\ FreshlyOpened(t)
                  /\ t.players = SessionOf(c).players
                  /\ t.game.round.setterId = c
    /\ \A code \in DOMAIN sessions :
          (sessions[code].game # NoGame /\ sessions[code].game.round # NoRound) =>
              \A i \in DOMAIN sessions[code].game.round.guesserOrder :
                  sessions[code].game.round.guesserOrder[i] #
                      sessions[code].game.round.setterId

\* C13's case: a phrase of the second player to join was accepted, and the
\* round it opened has the first and the later players as its guessers
RoundOpenedByMiddleSetter ==
    \E code \in DOMAIN sessions :
        /\ InState(sessions[code], {"active"})
        /\ FreshlyOpened(sessions[code])
        /\ Len(sessions[code].players) >= 3
        /\ sessions[code].game.round.setterId = sessions[code].players[2].id
        /\ Len(sessions[code].game.round.guesserOrder) >= 2
        /\ sessions[code].game.round.guesserOrder[1] = sessions[code].players[1].id
        /\ sessions[code].game.round.guesserOrder[2] = sessions[code].players[3].id

----------------------------------------------------------------------------
(* The setter order *)

\* order is the ids of players, in join order, laps times over
IsLaps(order, players, laps) ==
    /\ Len(order) = Len(players) * laps
    /\ \A i \in 0 .. (Len(order) - 1) :
          At(order, i) = At(players, i % Len(players)).id

\* C14: at startGame setterOrder is the list of the player ids in join order
\* repeated `rounds` times (its length is players.length * rounds) and
\* setterPointer is 0, so that the first setter is the earliest-joined player;
\* and the setter of every round is setterOrder[setterPointer], the player at
\* position setterPointer mod players.length of the list taken at the start
SetterOrderIsLaps ==
    /\ \A c \in Conns :
          (Attached(c) /\ HoldsManagerRole(SessionOf(c), c)) =>
              LET s == SessionOf(c)
                  t == OnManagerStartGameW(c).sessions[sockCode[c]]
              IN  /\ IsLaps(t.game.setterOrder, s.players, s.settings.rounds)
                  /\ t.game.setterPointer = 0
                  /\ t.game.state = "waiting_phrase"
                  /\ t.game.round.setterId = s.players[1].id
                  /\ t.players = s.players
    /\ \A code \in DOMAIN sessions :
          InState(sessions[code], {"waiting_phrase", "active", "won"}) =>
              /\ sessions[code].game.setterPointer <
                    Len(sessions[code].game.setterOrder)
              /\ sessions[code].game.round.setterId =
                    At(sessions[code].game.setterOrder,
                       sessions[code].game.setterPointer)

\* C14's case: a game of several laps has come round to its first setter again
SecondLapBegun ==
    \E code \in DOMAIN sessions :
        /\ InState(sessions[code], {"waiting_phrase"})
        /\ Len(sessions[code].players) >= 2
        /\ sessions[code].settings.rounds >= 2
        /\ IsLaps(sessions[code].game.setterOrder, sessions[code].players,
                  sessions[code].settings.rounds)
        /\ sessions[code].game.setterPointer = Len(sessions[code].players)
        /\ sessions[code].game.round.setterId = sessions[code].players[1].id

----------------------------------------------------------------------------
(* Phrases the server must reject *)

\* phrases with a character no server allows
DisallowedPhraseInputs == { <<"A","!","B">>, <<"a","b","c","?">> }

\* the characters a phrase may have, upper-cased: letters, spaces,
\* apostrophes, dashes and periods, and in the baseline server digits
Allowed == IF variant = "B" THEN AllowedB ELSE AllowedW

HasDisallowed(phrase) == \E i \in DOMAIN phrase : ToUpperCh(phrase[i]) \notin Allowed

\* the phrase was rejected: the submitter alone is told, nothing changes
Rejected(o) ==
    /\ o.sessions = sessions /\ o.sockCode = sockCode /\ o.open = open
    /\ o.emits = {Ev("error:phrase", "self")}

\* c is the setter of a round that waits for its phrase
AwaitedSetter(c) ==
    IsSetterOfRound(c) /\ InState(SessionOf(c), {"waiting_phrase"})

\* C15: a submitPhrase of the current setter whose phrase has a character
\* outside the allow-list is rejected: error:phrase goes to the submitter
\* only, and the game stays in waiting_phrase with the round unchanged
DisallowedPhraseRejected ==
    \A c \in Conns, phrase \in PhraseInputs \cup DisallowedPhraseInputs,
       hint \in HintInputs :
        (AwaitedSetter(c) /\ HasDisallowed(phrase)) =>
            Rejected(OnSetterSubmitPhrase(c, phrase, hint))

----------------------------------------------------------------------------
(* Phrase lengths *)

\* the lengths a phrase can be measured by: as typed and trimmed, and
\* normalized
Lengths(phrase) ==
    {Len(trim(phrase))} \cup
        (IF Normalized(phrase) = Null THEN {} ELSE {Len(Normalized(phrase))})

WithinSettings(s, n) == s.settings.minLen <= n /\ n <= s.settings.maxLen

\* C16: a submitPhrase of the current setter is accepted only if the length
\* of the phrase lies within settings.minLen and settings.maxLen of its
\* session; a phrase outside these bounds is rejected with error:phrase and
\* the game stays in waiting_phrase unchanged
PhraseLengthWithinSettings ==
    \A c \in Conns, phrase \in PhraseInputs, hint \in HintInputs :
        AwaitedSetter(c) =>
            LET o == OnSetterSubmitPhrase(c, phrase, hint)
                fits == \E n \in Lengths(phrase) : WithinSettings(SessionOf(c), n)
            IN  /\ Accepted(o) => fits
                /\ ~fits => Rejected(o)

----------------------------------------------------------------------------
(* The hint *)

OnSetterShowHint(c) ==
    IF variant = "B" THEN OnSetterShowHintB(c) ELSE OnSetterShowHintW(c)

\* the hint of the round of c's session has been shown
HintIsShown(c) ==
    /\ InState(SessionOf(c), {"active"})
    /\ SessionOf(c).game.round.hintShown

\* a showHint after the first changes nothing and sends nothing, and
\* game:hint is sent only by the showHint that flips hintShown to true
HintSentOnce ==
    \A c \in Conns :
        Attached(c) =>
            LET o == OnSetterShowHint(c)
                code == sockCode[c]
            IN  /\ HintIsShown(c) => Silent(o)
                /\ Ev("game:hint", code) \in o.emits =>
                      /\ IsSetterOfRound(c)
                      /\ ~SessionOf(c).game.round.hintShown
                      /\ o.sessions[code] =
                            [SessionOf(c) EXCEPT !.game.round.hintShown = TRUE]

\* within a round, which lasts while the game is active or won, hintShown
\* stays true
HintStaysShown ==
    \A code \in DOMAIN sessions :
        (/\ InState(sessions[code], {"active", "won"})
         /\ sessions[code].game.round.hintShown
         /\ code \in DOMAIN sessions'
         /\ InState(sessions'[code], {"active", "won"})) =>
            sessions'[code].game.round.hintShown

\* C17: showHint is a one-way, idempotent flip: within one round the hint is
\* broadcast at most once, hintShown never returns from true to false, and a
\* second showHint of the setter changes no state and emits nothing
ShowHintFlipsOnce == [](HintSentOnce) /\ [][HintStaysShown]_vars

\* C17's case: the hint of an active round has been shown and its setter is
\* connected, so that it can ask again
SetterCanAskHintAgain ==
    \E c \in Conns :
        /\ IsSetterOfRound(c)
        /\ HintIsShown(c)

----------------------------------------------------------------------------
(* The mask *)

\* buildMasked of the server this behaviour runs
mask(raw, G) == IF variant = "B" THEN buildMaskedB(raw, G) ELSE buildMasked(raw, G)

Alphabet == Range(UpperSeq)

\* m is raw with the letters of G shown, the other letters as "_", and every
\* other character as it is
MasksWith(m, raw, G) ==
    /\ Len(m) = Len(raw)
    /\ \A i \in DOMAIN raw :
          /\ (raw[i] \in Alphabet /\ raw[i] \in G) => m[i] = raw[i]
          /\ (raw[i] \in Alphabet /\ raw[i] \notin G) => m[i] = "_"
          /\ raw[i] \notin Alphabet => m[i] = raw[i]

\* the sets of letters the guessers can have guessed
GuessedSets == SUBSET {ToUpperCh(letter) : letter \in MaskLetterInputs}

\* C18: for every canonical phrase raw and every set G of guessed letters,
\* mask(raw, G) has the length of raw, shows every letter of raw that is in
\* G, shows "_" for every letter that is not, and shows every other character
\* verbatim; mask(raw, all letters) = raw, and mask(raw, {}) shows the
\* characters that are not letters and nothing else; the masked phrase of a
\* round is mask(raw, guessedLetters)
MaskShowsGuessedLetters ==
    \A code \in DOMAIN sessions :
        InState(sessions[code], {"active", "won"}) =>
            LET r == sessions[code].game.round
            IN  /\ \A G \in GuessedSets : MasksWith(mask(r.raw, G), r.raw, G)
                /\ mask(r.raw, Alphabet) = r.raw
                /\ MasksWith(mask(r.raw, {}), r.raw, {})
                /\ \A i \in DOMAIN r.raw :
                      mask(r.raw, {})[i] # "_" <=> r.raw[i] \notin Alphabet
                /\ r.masked = mask(r.raw, Range(r.guessedLetters))

\* C18's case: a phrase with letters and other characters, masked after a
\* guess that hit and a guess that missed, with a letter still hidden
PartlyMasked ==
    \E code \in DOMAIN sessions :
        /\ InState(sessions[code], {"active"})
        /\ LET r == sessions[code].game.round
           IN  /\ \E i \in DOMAIN r.raw : r.raw[i] \notin Alphabet
               /\ \E i \in DOMAIN r.raw : r.masked[i] = "_"
               /\ \E i \in DOMAIN r.raw : r.masked[i] \in Alphabet
               /\ \E i \in DOMAIN r.guessedLetters :
                     ~Includes(r.raw, r.guessedLetters[i])

----------------------------------------------------------------------------
(* The last guesser leaves *)

\* c is a phone among the players of its session and the only guesser left
\* of its active round
LastGuesser(c) ==
    /\ Attached(c)
    /\ InState(SessionOf(c), {"active"})
    /\ SessionOf(c).atvSocketId # c
    /\ IsPlayer(SessionOf(c), c)
    /\ SessionOf(c).game.round.guesserOrder = <<c>>

\* C19: when a disconnect removes the last remaining id from guesserOrder
\* while the state is active, the same handler resolves the round (state won)
\* with no guesser as its winner, and no guesser's score changes
LastGuesserLeavesForfeits ==
    \A c \in DOMAIN open :
        LastGuesser(c) =>
            LET s == SessionOf(c)
                t == OnDisconnect(c).sessions[sockCode[c]]
                before == RemoveAt(Scores(s.players), FirstWithId(s.players, c))
            IN  /\ t.game.state = "won"
                /\ t.game.round.guesserOrder = <<>>
                /\ t.game.round.winnerId \in {s.game.round.setterId, NoConn}
                /\ Len(t.players) = Len(before)
                /\ \A i \in DOMAIN t.players :
                      t.players[i].id # s.game.round.setterId =>
                          Scores(t.players)[i] = before[i]

\* C19's case: both guessers of a round have left while it was active, and
\* its setter is still there
RoundLeftWithoutGuessers ==
    \E c \in DOMAIN open :
        /\ IsSetterOfRound(c)
        /\ InState(SessionOf(c), {"won"})
        /\ IsPlayer(SessionOf(c), c)
        /\ Len(SessionOf(c).players) = 1
        /\ SessionOf(c).game.round.guesserOrder = <<>>
        /\ SessionOf(c).game.round.winnerId \in {c, NoConn}

----------------------------------------------------------------------------
(* Expiry *)

\* the session under code has outlived the TTL
Expired(code) == code \in DOMAIN sessions /\ IsExpired(sessions[code])

\* the outcome o treats the session under code as not found: the session is
\* as it was, or purged, and nothing about it is sent to its room
NotFound(o, code) ==
    /\ code \in DOMAIN o.sessions => o.sessions[code] = sessions[code]
    /\ \A e \in o.emits : e.to # code

\* the events that name their session by its code
ExpiredUnreachableByCode ==
    \A c \in Conns, code \in Codes, name \in NameInputsW :
        (open[c] /\ Expired(code)) =>
            /\ NotFound(OnAtvGetPlayersW(c, code), code)
            /\ NotFound(OnPlayerJoinW(c, code, name), code)
            /\ NotFound(OnPlayerRejoinW(c, code, name), code)

\* the events of a socket that joined the session before it expired
ExpiredUnreachableBySocket ==
    \A c \in Conns :
        (Attached(c) /\ Expired(sockCode[c])) =>
            LET code == sockCode[c]
            IN  /\ \A p \in SettingsInputsW :
                      NotFound(OnManagerSetSettingsW(c, p), code)
                /\ NotFound(OnManagerStartGameW(c), code)
                /\ NotFound(OnManagerNextRoundW(c), code)
                /\ \A phrase \in PhraseInputs, hint \in HintInputs :
                      NotFound(OnSetterSubmitPhraseW(c, phrase, hint), code)
                /\ \A letter \in LetterInputs :
                      NotFound(OnPlayerGuessLetterW(c, letter), code)
                /\ \A guess \in GuessInputs :
                      NotFound(OnPlayerSolveW(c, guess), code)

\* C20: once now - createdAt exceeds the TTL, every operation addressed to
\* the session treats it as not found: no join, rejoin, getPlayers, settings,
\* start, submit, guess, solve or advance event reads or changes it
ExpiredSessionUnreachable ==
    ExpiredUnreachableByCode /\ ExpiredUnreachableBySocket

----------------------------------------------------------------------------
(* Joining with a code that names no session *)

OnPlayerJoin(c, code, name) ==
    IF variant = "B" THEN OnPlayerJoinB(c, code, name)
    ELSE OnPlayerJoinW(c, code, name)
OnPlayerRejoin(c, code, name) ==
    IF variant = "B" THEN OnPlayerRejoinB(c, code, name)
    ELSE OnPlayerRejoinW(c, code, name)

\* the code is unknown, or its session has expired
NoSuchSession(code) == code \notin DOMAIN sessions \/ IsExpired(sessions[code])

\* the outcome o refuses connection c, which was attached to no session: c is
\* sent an error event, no session gains or changes a player, and c is still
\* attached to no session
Refusal(o, c) ==
    /\ \E e \in o.emits : e.to = "self" /\ e.ev = "error:join"
    /\ \A k \in DOMAIN o.sessions : o.sessions[k] = sessions[k]
    /\ o.sockCode[c] = NoCode

\* C22: a join or rejoin with a code that is unknown or expired sends an
\* explicit error event to that connection, adds no player to any session,
\* and leaves the connection attached to no session
UnknownCodeRefused ==
    \A c \in Conns, code \in CodeInputs, name \in NameInputsB :
        (open[c] /\ sockCode[c] = NoCode /\ NoSuchSession(code)) =>
            /\ Refusal(OnPlayerJoin(c, code, name), c)
            /\ Refusal(OnPlayerRejoin(c, code, name), c)

----------------------------------------------------------------------------
(* Rejoin by name, in the baseline server *)

\* names a phone can send: the name of the players, and another one
RejoinNameInputs == NameInputsB \cup {"Bo"}

\* the session under code is there for a join or rejoin
Live(code) == code \in DOMAIN sessions /\ ~IsExpired(sessions[code])

Named(s, name) == {i \in DOMAIN s.players : s.players[i].name = name}

\* t is s with the id of one player named name replaced by c, and nothing
\* else changed
SlotTakenOver(s, t, c, name) ==
    /\ Len(t.players) = Len(s.players)
    /\ \E i \in Named(s, name) :
          /\ t.players[i].id = c
          /\ \A j \in DOMAIN s.players :
                /\ t.players[j].name = s.players[j].name
                /\ t.players[j].score = s.players[j].score
                /\ t.players[j].isManager = s.players[j].isManager
                /\ j # i => t.players[j].id = s.players[j].id
    /\ t.settings = s.settings /\ t.game = s.game
    /\ t.atvSocketId = s.atvSocketId /\ t.createdAt = s.createdAt

\* C23: a rejoin whose name is the name of a player of the session gives that
\* player's id to the new connection and changes nothing else: name, score,
\* isManager and position of every player, and the number of players, are as
\* they were
RejoinByNameTakesSlot ==
    \A c \in Conns, code \in Codes, name \in RejoinNameInputs :
        (open[c] /\ Live(code) /\ Named(sessions[code], name) # {}) =>
            SlotTakenOver(sessions[code],
                          OnPlayerRejoinB(c, code, name).sessions[code], c, name)

\* C23's case: a phone is attached to a session whose players do not include
\* it any more, because a rejoin of another connection took its slot
SlotWasTakenOver ==
    \E d \in Phones :
        /\ Attached(d)
        /\ SessionOf(d).players # <<>>
        /\ ~IsPlayer(SessionOf(d), d)

\* C24: a rejoin whose name matches no player of the session has exactly the
\* effect of a join with the same code and name: it is refused when the join
\* is, and otherwise the new player is appended with score 0 and is the
\* manager if and only if the players list was empty
UnmatchedRejoinIsJoin ==
    \A c \in Conns, code \in CodeInputs, name \in RejoinNameInputs :
        (open[c] /\ (Live(code) => Named(sessions[code], name) = {})) =>
            /\ OnPlayerRejoinB(c, code, name).sessions =
                  OnPlayerJoinB(c, code, name).sessions
            /\ OnPlayerRejoinB(c, code, name).sockCode =
                  OnPlayerJoinB(c, code, name).sockCode

----------------------------------------------------------------------------
(* Player ids *)

\* C25: after any sequence of join, rejoin and disconnect events, repeated
\* joins and rejoins of one connection included, no two players of a session
\* have the same id
PlayerIdsDistinct ==
    \A code \in DOMAIN sessions :
        \A i, j \in DOMAIN sessions[code].players :
            sessions[code].players[i].id = sessions[code].players[j].id => i = j

----------------------------------------------------------------------------
(* The host leaves and comes back, in the baseline server *)

\* c is the host of the session it is attached to
IsHost(c) == Attached(c) /\ SessionOf(c).atvSocketId = c

\* C26: when the host connection disconnects, a session with at least one
\* player stays in the registry with its players and game unchanged and its
\* atvSocketId cleared; a session without players is deleted and
\* session:ended is broadcast
HostLeaves ==
    \A c \in Conns :
        IsHost(c) =>
            LET code == sockCode[c]
                o == OnDisconnectB(c)
            IN  IF SessionOf(c).players # <<>>
                THEN /\ code \in DOMAIN o.sessions
                     /\ o.sessions[code].players = SessionOf(c).players
                     /\ o.sessions[code].game = SessionOf(c).game
                     /\ o.sessions[code].settings = SessionOf(c).settings
                     /\ o.sessions[code].atvSocketId = NoConn
                     /\ o.emits = {}
                ELSE /\ code \notin DOMAIN o.sessions
                     /\ Ev("session:ended", code) \in o.emits

\* C26's case: the host has gone and left a session with players and a game
SessionOutlivesHost ==
    \E code \in DOMAIN sessions :
        /\ sessions[code].atvSocketId = NoConn
        /\ sessions[code].players # <<>>
        /\ Started(sessions[code])
        /\ \A c \in Hosts : ~open[c]

\* ---------------------------------------------------------------------------
\* C21.  Creating a session never returns a code that is a key of the
\* registry and never overwrites a session: in every reachable state, for
\* every connection and every code makeCode may return, the code is not a key,
\* the registry after the creation holds the new session under it, and every
\* session that was there is still there, unchanged, under its own code.
CreateKeepsRegistry ==
    \A c \in Conns : \A code \in makeCodeL :
        LET o == OnAtvCreateSessionW(c, code)
        IN  /\ ~Has(code)
            /\ DOMAIN o.sessions = DOMAIN sessions \cup {code}
            /\ Cardinality(DOMAIN o.sessions) = Cardinality(DOMAIN sessions) + 1
            /\ o.sessions[code] = createSession(c)
            /\ \A k \in DOMAIN sessions : o.sessions[k] = sessions[k]

\* a session is live, and the code of a session that was deleted (a socket
\* still carries it) is one makeCode may return
ReleasedCodeOfferedAgain ==
    /\ DOMAIN sessions # {}
    /\ \E c \in Conns :
          /\ sockCode[c] # NoCode
          /\ ~Has(sockCode[c])
          /\ sockCode[c] \in makeCodeL

\* ---------------------------------------------------------------------------
\* C27.  After the host has dropped, atv:getPlayers with the code of the
\* session, within the TTL, makes the asking connection the host: the
\* session's atvSocketId is that connection, the connection carries the code,
\* session:created and both snapshots are sent, and the registry holds the
\* same sessions with the same players, settings and game.
Hostless(code) == getSession(code) /\ sessions[code].atvSocketId = NoConn

GetPlayersReattaches ==
    \A code \in DOMAIN sessions : \A c \in Conns :
        Hostless(code) /\ open[c] =>
            LET o == OnAtvGetPlayersB(c, code)
            IN  /\ DOMAIN o.sessions = DOMAIN sessions
                /\ o.sessions[code] = [sessions[code] EXCEPT !.atvSocketId = c]
                /\ \A k \in DOMAIN sessions \ {code} : o.sessions[k] = sessions[k]
                /\ o.sockCode[c] = code
                /\ o.emits = {Ev("session:created", "self"),
                              Ev("session:players", code), Ev("game:state", code)}

\* C27's case: the display that created the session is gone, its players are
\* still there, and a connection that is not one of them is the host now
HostReattached ==
    \E code \in DOMAIN sessions : \E c \in Phones :
        /\ sessions[code].atvSocketId = c
        /\ sockCode[c] = code
        /\ \A h \in Hosts : ~open[h]
        /\ sessions[code].players # <<>>
        /\ \A i \in DOMAIN sessions[code].players : sessions[code].players[i].id # c

\* ---------------------------------------------------------------------------
\* C28.  The game:state snapshot does not give the phrase away: in every
\* snapshot of a round that has no winner yet, masked is as long as raw and
\* shows "_" for every letter of raw that is not among guessedLetters; the
\* snapshot has no field for raw or for the hint text, and guessedLetters
\* spells raw only when masked hides nothing; masked shows a letter that was
\* not guessed only in a round that has a winner.
Unguessed(r) ==
    {i \in DOMAIN r.raw :
        IsLetter(r.raw[i]) /\ ~Includes(r.guessedLetters, ToUpperCh(r.raw[i]))}

RoundOpen(s) == HasRound(s) /\ s.game.round.winnerId = NoConn

SnapshotHidesPhrase ==
    \A code \in DOMAIN sessions :
        LET s == sessions[code]
            p == GameStatePayload(s)
        IN  /\ {"raw", "hint"} \cap DOMAIN p = {}
            /\ HasRound(s) =>
                  LET r == s.game.round
                  IN  /\ RoundOpen(s) =>
                            /\ Len(p.masked) = Len(r.raw)
                            /\ \A i \in Unguessed(r) : p.masked[i] = "_"
                            /\ p.guessedLetters = r.raw => Unguessed(r) = {}
                      /\ (\E i \in Unguessed(r) : p.masked[i] # "_") =>
                            /\ p.winnerId # NoConn
                            /\ p.state \in {"won", "over", "idle"}

\* C28's case: a round under way whose snapshot shows a guessed letter and
\* hides another
SnapshotPartlyHidden ==
    \E code \in DOMAIN sessions :
        LET s == sessions[code]
            p == GameStatePayload(s)
        IN  /\ RoundOpen(s) /\ p.state = "active"
            /\ Unguessed(s.game.round) # {}
            /\ \E i \in DOMAIN p.masked : IsLetter(p.masked[i])

\* ---------------------------------------------------------------------------
\* C29.  The host is never a player: in every reachable state no entry of a
\* session's players has the id the session holds as atvSocketId.
HostIsNoPlayer ==
    \A code \in DOMAIN sessions :
        \A i \in DOMAIN sessions[code].players :
            sessions[code].players[i].id # sessions[code].atvSocketId

\* ---------------------------------------------------------------------------
\* C30.  A session never holds more than ten players: in every reachable
\* state the players list of every session has at most PlayerCap entries.
PlayersWithinCap ==
    \A code \in DOMAIN sessions : Len(sessions[code].players) <= PlayerCap

\* ---------------------------------------------------------------------------
\* Definitions for C34
IsPlayerId(s, id) == \E i \in DOMAIN s.players : s.players[i].id = id

\* C34.  Whenever a game is active, the round has a current-turn id and it is
\* the id of a player of the session.
TurnHolderPresent ==
    \A code \in DOMAIN sessions :
        LET s == sessions[code]
        IN  (HasRound(s) /\ s.game.state = "active") =>
                /\ s.game.round.guesserOrder # <<>>
                /\ currentTurnPlayerId(s) # NoConn
                /\ IsPlayerId(s, currentTurnPlayerId(s))

\* ---------------------------------------------------------------------------
\* C35.  Whenever a game is in waiting_phrase or active, the setterId of its
\* round is the id of a player of the session.
SetterPresent ==
    \A code \in DOMAIN sessions :
        LET s == sessions[code]
        IN  (HasRound(s) /\ s.game.state \in {"waiting_phrase", "active"}) =>
                IsPlayerId(s, s.game.round.setterId)

\* ---------------------------------------------------------------------------
\* Definitions for C36
Bystanders(s) ==
    {c \in Range(s.game.round.guesserOrder) :
        c # currentTurnPlayerId(s) /\ IsPlayerId(s, c)}

\* C36.  When a guesser who does not hold the turn disconnects during an
\* active round, the guesser who holds the turn still holds it afterwards.
BystanderLeavesTurnStays ==
    \A code \in DOMAIN sessions :
        LET s == sessions[code]
        IN  (HasRound(s) /\ s.game.state = "active") =>
                \A c \in Bystanders(s) :
                    (sockCode[c] = code /\ s.atvSocketId # c) =>
                        LET o == OnDisconnectW(c)
                        IN  /\ code \in DOMAIN o.sessions
                            /\ currentTurnPlayerId(o.sessions[code])
                                   = currentTurnPlayerId(s)

\* ---------------------------------------------------------------------------
\* C37.  In the wrong-limit server, whenever a game is active and
\* unlimitedWrong is false, the round's wrongCount is below settings.wrongLimit.
WrongCountBelowLimit ==
    \A code \in DOMAIN sessions :
        LET s == sessions[code]
        IN  (variant = "W" /\ HasRound(s) /\ s.game.state = "active"
               /\ ~s.settings.unlimitedWrong) =>
                s.game.round.wrongCount < s.settings.wrongLimit

\* ---------------------------------------------------------------------------
\* C38.  After any sequence of manager:setSettings events, settings.minLen is
\* at most settings.maxLen, so some phrase length is acceptable.
MinLenAtMostMaxLen ==
    \A code \in DOMAIN sessions :
        sessions[code].settings.minLen <= sessions[code].settings.maxLen

\* ---------------------------------------------------------------------------
\* Definitions for C39
LetterlessPhraseInputs == { <<"1","2","3">>, <<"2","0","-","2","1">> }

Hidden(s) == \E i \in DOMAIN s.game.round.masked : s.game.round.masked[i] = "_"

ActiveHidesSomething(s) ==
    (HasRound(s) /\ s.game.state = "active") => Hidden(s)

\* C39.  Whenever a game is active, masked holds at least one "_": no round
\* is active in a reachable state with nothing left to guess, and no phrase
\* that setter:submitPhrase accepts, one without letters included, opens such
\* a round.
ActiveRoundHasBlank ==
    /\ \A code \in DOMAIN sessions : ActiveHidesSomething(sessions[code])
    /\ \A c \in Conns, phrase \in PhraseInputs \cup LetterlessPhraseInputs,
          hint \in HintInputs :
           AwaitedSetter(c) =>
               LET o == OnSetterSubmitPhrase(c, phrase, hint)
               IN  \A code \in DOMAIN o.sessions :
                       ActiveHidesSomething(o.sessions[code])

\* ---------------------------------------------------------------------------
\* C40.  Every session in the registry has a host connection or at least one
\* player.
SessionHasSomeone ==
    \A code \in DOMAIN sessions :
        sessions[code].atvSocketId # NoConn \/ sessions[code].players # <<>>

\* ---------------------------------------------------------------------------
\* Definitions for C33
EventOutcomes(c) ==
    {OnManagerStartGameW(c), OnManagerNextRoundW(c), OnSetterShowHintW(c),
     OnDisconnectW(c)}
    \cup {OnManagerEndGameW(c, n) : n \in LobbyCodes \ DOMAIN Del(sessions, sockCode[c])}
    \cup {OnManagerSetSettingsW(c, p) : p \in SettingsInputsW}
    \cup {OnSetterSubmitPhraseW(c, ph, "h") : ph \in PhraseInputs \cup DisallowedPhraseInputs}
    \cup {OnPlayerGuessLetterW(c, l) : l \in LetterInputs}
    \cup {OnPlayerSolveW(c, g) : g \in GuessInputs}
    \cup {OnPlayerRenameW(c, n) : n \in NameInputsW}
    \cup {OnPlayerJoinW(c, k, "Al") : k \in {sockCode[c], "ZZZZ"}}
    \cup {OnPlayerRejoinW(c, k, "Al") : k \in {sockCode[c], "ZZZZ"}}
    \cup {OnAtvGetPlayersW(c, k) : k \in {sockCode[c], "ZZZZ"}}

SameSession(s, t) ==
    /\ t.players = s.players
    /\ t.settings = s.settings
    /\ t.game = s.game

StaleTimerChangesNothing ==
    \A i \in DOMAIN timers :
        ~timers[i].live =>
            /\ OnTimer(i).s.game = timers[i].s.game
            /\ OnTimer(i).sessions = sessions

\* ---------------------------------------------------------------------------
\* C32.  In the auto-advance server, every timer that is pending for a session
\* in the registry finds the round it was set for: the game is still in state
\* won and no other timer is pending for the session, so that the callback
\* advances roundIndex once for the round that was won and never replaces a
\* round in waiting_phrase or active.
TimerFindsItsWonRound ==
    \A i \in DOMAIN timers :
        timers[i].live =>
            /\ HasGame(sessions[timers[i].code])
            /\ sessions[timers[i].code].game.state = "won"
            /\ \A j \in DOMAIN timers :
                  (timers[j].live /\ timers[j].code = timers[i].code) => j = i

====
